---- MODULE Spec2Model ----
(***************************************************************************)
(* The invoice reconciler of the Dijnet integration                        *)
(* (custom_components/dijnet/controller.py): DijnetController with its     *)
(* in-memory registry and paid/unpaid lists, the two YAML files it keeps   *)
(* per username, the row classifier and the merge of update_invoices.      *)
(*                                                                         *)
(* Dates are day numbers counted from MIN_DATE (1990-01-01 = day 0).  The  *)
(* code holds them as ISO strings "YYYY-MM-DD" and compares the strings;   *)
(* for the four-digit years strptime("%Y.%m.%d") accepts, that order is    *)
(* the order of the day numbers.                                           *)
(*                                                                         *)
(* A text (the status cell of a row) is a sequence of phrases, and         *)
(*   "phrase in text"   is   Contains(text, phrase).                       *)
(* None of the phrases the classifier looks for is a substring of another  *)
(* ("Rendezetlen" does not contain "Rendezett"), so a text is known by the *)
(* phrases it holds.  Accented letters are written without accents.        *)
(*                                                                         *)
(* Spec is the reconciler against a session that delivers the login        *)
(* answer, the search result and the history pages: the call of            *)
(* post_search_invoice at line 478 is taken to return the rows of the      *)
(* window it was asked for.  SpecRecorded is Spec with the rows of each    *)
(* cycle kept in search_result, for the properties that name them.         *)
(* SpecClassify applies _is_invoice_paid to every status text of bounded   *)
(* length.  SpecFaults is Spec with cycles that an exception of a write or *)
(* of a download ends.  SpecFacade is the two platforms calling the        *)
(* throttled update_invoices through the getters.  SpecSearch is the call  *)
(* of line 478 itself, bound to the parameters of post_search_invoice as   *)
(* Python binds positional arguments.  SpecNames computes the file names   *)
(* of two usernames, SpecLoad loads ledger files with entries that cannot  *)
(* be read.  SpecSetup is async_setup_entry, its awaited get_issuers and   *)
(* the get_issuers of the two platforms under the throttle of a day.       *)
(* SpecSession is update_invoices and update_registered_issuers request by *)
(* request on the DijnetSession each opens, with the download block, the   *)
(* exceptions that can end a refresh and the closing of the session.       *)
(* SpecWrapper is the DijnetWrapper of sensor.py with two threads calling  *)
(* updateUnpaidInvoices under its lock.                                    *)
(***************************************************************************)
EXTENDS Integers, Sequences, FiniteSets, TLC

VARIABLES
    today,            \* datetime.now().date()
    encashment,       \* self._encashment_reported_as_paid_after_deadline
    registry_file,    \* .dijnet_registry_{user}.yaml: NoFile or next_query_date
    ledger_file,      \* .dijnet_paid_invoices_{user}.yaml: whether it exists, its entries
    registry,         \* self._registry: None or next_query_date
    paid_invoices,    \* self._paid_invoices
    unpaid_invoices,  \* self._unpaid_invoices
    to_date,          \* to_date of the last cycle that ran to its end
    cycle_done,       \* whether this controller has run a cycle to its end
    search_result,    \* SpecRecorded: the rows of the last cycle, <<>> in Spec
    cycles,           \* SpecRecorded: the cycles run to their end, 0 in Spec
    cl_row,           \* SpecClassify: the row handed to _is_invoice_paid
    cl_result,        \* SpecClassify: what it returned
    clock,            \* SpecFacade: utcnow(); SpecWrapper: datetime.now(); in hours
    throttle,         \* SpecFacade: host._throttle[..][1] of update_invoices
    pc,               \* SpecFacade: where each caller of get_..._invoices is
    last_success,     \* SpecFacade: when a cycle last ran to its end, or None
    faults,           \* SpecFaults: the cycles that a failing write or download ended
    fault,            \* SpecFaults: what failed in the last of them
    search_call,      \* SpecSearch: what became of the call of post_search_invoice
    usernames,        \* SpecNames: the usernames of two controllers
    filenames,        \* SpecNames: the file names of each, once computed
    issuers,          \* self._issuers
    issuer_throttle,  \* host._throttle[..][1] of update_registered_issuers
    setup,            \* SpecSetup: how far async_setup_entry is, what its refresh left
    received,         \* SpecSetup: what get_issuers returned to each platform
    download_dir,     \* self._download_dir
    work,             \* SpecSession: the refresh that runs or ran last
    where,            \* SpecSession: where it is, or where it ended
    ended,            \* SpecSession: "running", or how it ended
    session_open,     \* SpecSession: whether the aiohttp.ClientSession is open
    requests,         \* SpecSession: the requests sent on the session, in order
    login,            \* SpecSession: the answer to the login request, what post_login did
    token,            \* SpecSession: whether the search page held a vfw_token
    index,            \* SpecSession: index of the row loop (line 483)
    row_no,           \* SpecSession: the rows of search_result the loop has been through
    before,           \* SpecSession: the controller and its files when the cycle began
    directories,      \* SpecSession: the directories made under download_dir
    files,            \* SpecSession: the attachment paths that exist on the disk
    attachments,      \* SpecSession: the attachment paths written, in order
    wrapper,          \* SpecWrapper: the DijnetWrapper of sensor.py
    threads           \* SpecWrapper: the threads that call updateUnpaidInvoices

vars == <<today, encashment, registry_file, ledger_file, registry, paid_invoices,
          unpaid_invoices, to_date, cycle_done, search_result, cycles, cl_row,
          cl_result, clock, throttle, pc, last_success, faults, fault,
          search_call, usernames, filenames, issuers, issuer_throttle, setup,
          received, download_dir, work, where, ended, session_open, requests, login,
          token, index, row_no, before, directories, files, attachments, wrapper,
          threads>>

names_vars == <<usernames, filenames>>

setup_vars == <<issuers, issuer_throttle, setup, received>>

session_vars == <<download_dir, work, where, ended, session_open, requests, login,
                  token, index, row_no, before, directories, files, attachments>>

wrapper_vars == <<wrapper, threads>>

\* what the specifications of the reconciler leave alone
aux_vars == <<names_vars, setup_vars, session_vars, wrapper_vars>>

facade_vars == <<clock, throttle, pc, last_success>>

fault_vars == <<faults, fault>>

cycle_vars == <<today, encashment, registry_file, ledger_file, registry,
                paid_invoices, unpaid_invoices, to_date, cycle_done, search_result,
                cycles>>

----------------------------------------------------------------------------
(* Program constants *)

MIN_DATE == 0
QUERY_DAYS == 31
\* MIN_TIME_BETWEEN_UPDATES, in hours
MIN_TIME_BETWEEN_UPDATES == 3
\* MIN_TIME_BETWEEN_ISSUER_UPDATES, in hours
MIN_TIME_BETWEEN_ISSUER_UPDATES == 24

(* Bounds of the model *)

MaxRows == 2
MaxCycles == 2
MaxPhrases == 2
MaxClock == 5
MaxFaults == 1

\* the registry files of SpecSearch are at most MaxWindow days old
MaxWindow == 12

\* the usernames of SpecNames have at most MaxName characters
MaxName == 2

\* the ledger files of SpecLoad have at most MaxEntries entries
MaxEntries == 3

\* SpecSetup runs until the clock shows MaxSetupClock
MaxSetupClock == 26

\* the search results of SpecSession have at most MaxSessionRows rows
MaxSessionRows == 2

Days == { 100, 140 }

\* the entities that call get_unpaid_invoices and get_paid_invoices
Callers == { "sensor", "calendar" }

\* the platforms async_setup_entry forwards the entry to
Platforms == { "sensor", "calendar" }

\* None, where the code holds a date or None
None == -1
\* what stands for a registry file that does not exist
NoFile == -1
\* the ledger file before anything was appended to it
NoLedger == [ exists |-> FALSE, entries |-> <<>> ]

ATTR_PAID_SUCCESS == "**Sikeres fizetes**"

\* the invoices a row can show: two issued on different days under one key,
\* one with the same number from another provider
PortalInvoices ==
    { [ provider |-> "X", invoice_no |-> "123", issuance_date |-> 40, deadline |-> 99 ],
      [ provider |-> "X", invoice_no |-> "123", issuance_date |-> 95, deadline |-> 101 ],
      [ provider |-> "Y", invoice_no |-> "123", issuance_date |-> 95, deadline |-> 101 ] }
Amounts == { 1000 }

PaidPhrases == { "Rendezett", "Fizetve" }
UnpaidPhrases == { "Tovabb a fizeteshez", "Rendezetlen", "Mobiltelefonra kuldve",
                   "Internetbanknak atadva" }
CollectionPhrases == { "Csoportos beszedes", "Beszedes alatt" }
OtherPhrases == { "Sztorno" }
Phrases == PaidPhrases \cup UnpaidPhrases \cup CollectionPhrases \cup OtherPhrases
\* the status texts of the rows of a search result
StatusTexts == { <<"Rendezett">>, <<"Rendezetlen">>, <<"Sztorno">> }
\* the texts handed to the classifier alone
ClassifierTexts == UNION { [1..k -> Phrases] : k \in 0..MaxPhrases }

HistorySuccess == [ date |-> 97, text |-> ATTR_PAID_SUCCESS ]
HistoryOther == [ date |-> 96, text |-> "Szamla bemutatas" ]
\* the tables of a payment-history page
Histories == { <<>>, <<HistorySuccess>>, <<HistoryOther, HistorySuccess>> }

----------------------------------------------------------------------------
(* Helpers *)

Contains(text, phrase) == \E i \in 1..Len(text) : text[i] = phrase

SeqsUpTo(S, n) == UNION { [1..k -> S] : k \in 0..n }

----------------------------------------------------------------------------
(* Invoice, PaidInvoice *)

Invoice(provider, display_name, invoice_no, issuance_date, amount, deadline) ==
    [ provider |-> provider, display_name |-> display_name,
      invoice_no |-> invoice_no, issuance_date |-> issuance_date,
      amount |-> amount, deadline |-> deadline ]

PaidInvoice(provider, display_name, invoice_no, issuance_date, amount, deadline, paid_at) ==
    [ provider |-> provider, display_name |-> display_name,
      invoice_no |-> invoice_no, issuance_date |-> issuance_date,
      amount |-> amount, deadline |-> deadline, paid_at |-> paid_at ]

\* Invoice.__eq__ comparing every field the two objects hold
InvoiceEqAllFields(a, b) == a = b

\* Invoice.__eq__
InvoiceEq(a, b) == a.provider = b.provider /\ a.invoice_no = b.invoice_no

\* PaidInvoice.to_dictionary
to_dictionary(p) == p

\* PaidInvoice.from_dictionary: the constructor takes (..., issuance_date, amount,
\* deadline, paid_at) and is handed (..., issuance_date, deadline, amount, paid_at)
from_dictionary(d) ==
    PaidInvoice(d.provider, d.display_name, d.invoice_no, d.issuance_date,
                d.deadline, d.amount, d.paid_at)

Key(inv) == <<inv.provider, inv.invoice_no>>

----------------------------------------------------------------------------
(* DijnetController._is_invoice_paid: "True", "False" or "None" *)

\* the collection rule with deadline <= now in place of deadline < now
CollectionVerdictInclusive(deadline, flag, now) ==
    IF flag THEN (IF deadline <= now THEN "True" ELSE "False") ELSE "False"

CollectionVerdict(deadline, flag, now) ==
    IF flag THEN (IF deadline < now THEN "True" ELSE "False") ELSE "False"

\* the classifier with the paid phrases looked for before every unpaid phrase
is_invoice_paid_PaidFirst(state_text, deadline, flag, now) ==
    IF Contains(state_text, "Rendezett") THEN "True"
    ELSE IF Contains(state_text, "Fizetve") THEN "True"
    ELSE IF Contains(state_text, "Tovabb a fizeteshez") THEN "False"
    ELSE IF Contains(state_text, "Rendezetlen") THEN "False"
    ELSE IF Contains(state_text, "Mobiltelefonra kuldve") THEN "False"
    ELSE IF Contains(state_text, "Internetbanknak atadva") THEN "False"
    ELSE IF Contains(state_text, "Csoportos beszedes")
            \/ Contains(state_text, "Beszedes alatt")
         THEN CollectionVerdict(deadline, flag, now)
    ELSE "None"

is_invoice_paid(state_text, deadline, flag, now) ==
    IF Contains(state_text, "Tovabb a fizeteshez") THEN "False"
    ELSE IF Contains(state_text, "Rendezett") THEN "True"
    ELSE IF Contains(state_text, "Fizetve") THEN "True"
    ELSE IF Contains(state_text, "Rendezetlen") THEN "False"
    ELSE IF Contains(state_text, "Mobiltelefonra kuldve") THEN "False"
    ELSE IF Contains(state_text, "Internetbanknak atadva") THEN "False"
    ELSE IF Contains(state_text, "Csoportos beszedes")
            \/ Contains(state_text, "Beszedes alatt")
         THEN CollectionVerdict(deadline, flag, now)
    ELSE "None"

Verdict(row, flag, now) == is_invoice_paid(row.state_text, row.deadline, flag, now)

----------------------------------------------------------------------------
(* The row loop of update_invoices *)

\* DijnetController._create_invoice_from_row
create_invoice_from_row(row, paid_at) ==
    IF paid_at # None
    THEN PaidInvoice(row.provider, row.display_name, row.invoice_no,
                     row.issuance_date, row.amount, row.deadline, paid_at)
    ELSE Invoice(row.provider, row.display_name, row.invoice_no,
                 row.issuance_date, row.amount, row.deadline)

\* the paid_at the loop body takes from one row of the history table
HistoryPaidAt(row, history_row) ==
    IF history_row.text = ATTR_PAID_SUCCESS THEN history_row.date ELSE row.deadline

\* what a Paid row appends to possible_new_paid_invoices: one invoice per row of
\* the history table, none when the table has no row (the invoice built after
\* the loop is not appended)
PaidInvoicesOfRow(row) ==
    [ i \in 1..Len(row.history) |->
        create_invoice_from_row(row, HistoryPaidAt(row, row.history[i])) ]

RECURSIVE possible_new_paid_invoices(_, _, _)
possible_new_paid_invoices(rows, flag, now) ==
    IF rows = <<>> THEN <<>>
    ELSE LET row == Head(rows)
         IN (IF Verdict(row, flag, now) = "True" THEN PaidInvoicesOfRow(row) ELSE <<>>)
            \o possible_new_paid_invoices(Tail(rows), flag, now)

RECURSIVE possible_new_unpaid_invoices(_, _, _)
possible_new_unpaid_invoices(rows, flag, now) ==
    IF rows = <<>> THEN <<>>
    ELSE LET row == Head(rows)
         IN (IF Verdict(row, flag, now) = "False"
             THEN << create_invoice_from_row(row, None) >> ELSE <<>>)
            \o possible_new_unpaid_invoices(Tail(rows), flag, now)

----------------------------------------------------------------------------
(* The merge of update_invoices *)

Exists(list, inv) == \E i \in 1..Len(list) : InvoiceEq(list[i], inv)

\* list.remove of the first element equal to inv
RemoveFirst(list, inv) ==
    IF ~Exists(list, inv) THEN list
    ELSE LET i == CHOOSE j \in 1..Len(list) :
                      /\ InvoiceEq(list[j], inv)
                      /\ \A k \in 1..(j - 1) : ~InvoiceEq(list[k], inv)
         IN SubSeq(list, 1, i - 1) \o SubSeq(list, i + 1, Len(list))

\* one pass of the first merge loop that appends without looking for the key
MergePaidStepNoCheck(m, possible) ==
    [ paid   |-> Append(m.paid, possible),
      new    |-> Append(m.new, possible),
      unpaid |-> RemoveFirst(m.unpaid, possible) ]

\* one pass of the loop over possible_new_paid_invoices
MergePaidStep(m, possible) ==
    IF Exists(m.paid, possible) THEN m
    ELSE [ paid   |-> Append(m.paid, possible),
           new    |-> Append(m.new, possible),
           unpaid |-> RemoveFirst(m.unpaid, possible) ]

\* one pass of the loop over possible_new_unpaid_invoices
MergeUnpaidStep(m, possible) ==
    IF Exists(m.unpaid, possible) THEN m
    ELSE [ m EXCEPT !.unpaid = Append(m.unpaid, possible) ]

RECURSIVE MergePaid(_, _)
MergePaid(m, possibles) ==
    IF possibles = <<>> THEN m
    ELSE MergePaid(MergePaidStep(m, Head(possibles)), Tail(possibles))

RECURSIVE MergeUnpaid(_, _)
MergeUnpaid(m, possibles) ==
    IF possibles = <<>> THEN m
    ELSE MergeUnpaid(MergeUnpaidStep(m, Head(possibles)), Tail(possibles))

\* the merge with the unpaid list built from the search result alone
MergeRecomputed(paid, unpaid, possible_paid, possible_unpaid) ==
    MergeUnpaid(MergePaid([ paid |-> paid, new |-> <<>>, unpaid |-> <<>> ],
                          possible_paid),
                possible_unpaid)

\* [paid, unpaid, new]: paid_invoices, unpaid_invoices and new_paid_invoices
\* after both loops
Merge(paid, unpaid, possible_paid, possible_unpaid) ==
    MergeUnpaid(MergePaid([ paid |-> paid, new |-> <<>>, unpaid |-> unpaid ],
                          possible_paid),
                possible_unpaid)

----------------------------------------------------------------------------
(* The watermark *)

RECURSIVE LowerTo(_, _)
LowerTo(date, unpaid) ==
    IF unpaid = <<>> THEN date
    ELSE LowerTo(IF date > Head(unpaid).issuance_date
                 THEN Head(unpaid).issuance_date ELSE date,
                 Tail(unpaid))

\* the watermark that leaves the unpaid invoices out
next_query_date_Default(to, unpaid) == to - QUERY_DAYS

\* the watermark lowered by the first unpaid invoice alone
next_query_date_FirstUnpaid(to, unpaid) ==
    LowerTo(to - QUERY_DAYS, IF unpaid = <<>> THEN <<>> ELSE << Head(unpaid) >>)

\* the watermark that is the end of the window just searched
next_query_date_Today(to, unpaid) == LowerTo(to, unpaid)

next_query_date(to, unpaid) == LowerTo(to - QUERY_DAYS, unpaid)

----------------------------------------------------------------------------
(* The files *)

\* open(paid_invoices_filename, "w"): the file holds the dumped list alone
AppendLedgerRewriting(file, new_paid) ==
    [ exists |-> TRUE,
      entries |-> [ i \in 1..Len(new_paid) |-> to_dictionary(new_paid[i]) ] ]

\* open(paid_invoices_filename, "a"): "\n" and the dumped list of dictionaries
AppendLedger(file, new_paid) ==
    LET dicts == [ i \in 1..Len(new_paid) |-> to_dictionary(new_paid[i]) ]
    IN [ exists |-> TRUE, entries |-> file.entries \o dicts ]

\* the keys PaidInvoice.from_dictionary reads
PaidInvoiceKeys ==
    { "provider", "display_name", "invoice_no", "issuance_date", "deadline", "amount",
      "paid_at" }

\* whether from_dictionary(d) returns: it raises KeyError on a missing key, and
\* TypeError on what is no mapping (written here as a record with no such key)
Loadable(d) == PaidInvoiceKeys \subseteq DOMAIN d

\* the loop of lines 727-732 had it no try of its own: the first entry that
\* raises ends it
RECURSIVE LoadEntriesUntilInvalid(_)
LoadEntriesUntilInvalid(entries) ==
    IF entries = <<>> \/ ~Loadable(Head(entries)) THEN <<>>
    ELSE << from_dictionary(Head(entries)) >> \o LoadEntriesUntilInvalid(Tail(entries))

\* lines 727-732: an entry whose from_dictionary raises is logged and left out
RECURSIVE LoadEntries(_)
LoadEntries(entries) ==
    IF entries = <<>> THEN <<>>
    ELSE (IF Loadable(Head(entries)) THEN << from_dictionary(Head(entries)) >>
          ELSE <<>>)
         \o LoadEntries(Tail(entries))

\* a load that keeps the registry it has read when only the ledger file is missing
initialize_keeping_registry(reg_file, led_file) ==
    IF reg_file = NoFile THEN [ registry |-> MIN_DATE, paid |-> <<>> ]
    ELSE IF ~led_file.exists THEN [ registry |-> reg_file, paid |-> <<>> ]
    ELSE [ registry |-> reg_file, paid |-> LoadEntries(led_file.entries) ]

\* DijnetController._initialize_registry_and_unpaid_invoices:
\* [registry, paid] as loaded, or the first-run values when either file is missing
initialize_registry_and_unpaid_invoices(reg_file, led_file) ==
    IF reg_file = NoFile \/ ~led_file.exists
    THEN [ registry |-> MIN_DATE, paid |-> <<>> ]
    ELSE [ registry |-> reg_file, paid |-> LoadEntries(led_file.entries) ]

----------------------------------------------------------------------------
(* What the portal answers *)

\* the rows a search over [from, to] can show; the history page goes with a row the
\* classifier calls paid, the only rows whose history is fetched
Rows(from, to, flag, now) ==
    { row \in [ provider : { inv.provider : inv \in PortalInvoices },
                display_name : { "Aram" },
                invoice_no : { inv.invoice_no : inv \in PortalInvoices },
                issuance_date : { inv.issuance_date : inv \in PortalInvoices },
                deadline : { inv.deadline : inv \in PortalInvoices },
                amount : Amounts,
                state_text : StatusTexts,
                history : Histories ] :
        /\ [ provider |-> row.provider, invoice_no |-> row.invoice_no,
             issuance_date |-> row.issuance_date, deadline |-> row.deadline ]
               \in PortalInvoices
        /\ from <= row.issuance_date /\ row.issuance_date <= to
        /\ (Verdict(row, flag, now) # "True" => row.history = <<>>) }

SearchResults(from, to, flag, now) == SeqsUpTo(Rows(from, to, flag, now), MaxRows)

----------------------------------------------------------------------------
(* update_invoices *)

\* the controller and its two files, as one value
Controller ==
    [ registry |-> registry, paid |-> paid_invoices, unpaid |-> unpaid_invoices,
      registry_file |-> registry_file, ledger_file |-> ledger_file ]

\* a load that writes the registry it has read back to the registry file
LoadedAndSaved(c) ==
    IF c.registry # None THEN c
    ELSE LET init == initialize_registry_and_unpaid_invoices(c.registry_file,
                                                              c.ledger_file)
         IN [ c EXCEPT !.registry = init.registry, !.paid = init.paid,
                       !.registry_file = init.registry ]

\* a load that every call repeats
LoadedAlways(c) ==
    LET init == initialize_registry_and_unpaid_invoices(c.registry_file,
                                                         c.ledger_file)
    IN [ c EXCEPT !.registry = init.registry, !.paid = init.paid ]

\* lines 449-450: the files are loaded by the first call
Loaded(c) ==
    IF c.registry # None THEN c
    ELSE LET init == initialize_registry_and_unpaid_invoices(c.registry_file,
                                                              c.ledger_file)
         IN [ c EXCEPT !.registry = init.registry, !.paid = init.paid ]

\* lines 579-631 on a loaded controller c: merge, append to the ledger file,
\* compute and write the registry, publish
MergeAndPersist(c, rows, flag, now) ==
    LET m == Merge(c.paid, c.unpaid,
                   possible_new_paid_invoices(rows, flag, now),
                   possible_new_unpaid_invoices(rows, flag, now))
        nqd == next_query_date(now, m.unpaid)
    IN [ registry      |-> nqd,
         paid          |-> m.paid,
         unpaid        |-> m.unpaid,
         ledger_file   |-> IF Len(m.new) > 0 THEN AppendLedger(c.ledger_file, m.new)
                           ELSE c.ledger_file,
         registry_file |-> nqd ]

\* a publication that an await parts: the unpaid list is assigned later
PublishPaidFirst(c) ==
    /\ registry' = c.registry
    /\ paid_invoices' = c.paid
    /\ unpaid_invoices' = unpaid_invoices
    /\ registry_file' = c.registry_file
    /\ ledger_file' = c.ledger_file

\* lines 629-631 (and 738-739): the attributes are assigned with no await
\* between the assignments
Publish(c) ==
    /\ registry' = c.registry
    /\ paid_invoices' = c.paid
    /\ unpaid_invoices' = c.unpaid
    /\ registry_file' = c.registry_file
    /\ ledger_file' = c.ledger_file

\* update_invoices, the login succeeding and the search showing rows
Cycle(rows) ==
    /\ Publish(MergeAndPersist(Loaded(Controller), rows, encashment, today))
    /\ to_date' = today
    /\ cycle_done' = TRUE
    /\ UNCHANGED <<today, encashment, cl_row, fault_vars, search_call, aux_vars,
                   cl_result>>

\* a call of update_invoices whose login succeeds
UpdateInvoices ==
    /\ \E rows \in SearchResults(Loaded(Controller).registry, today, encashment,
                                  today) : Cycle(rows)
    /\ UNCHANGED <<search_result, cycles, facade_vars>>

\* the same call, the rows it met kept for the properties to name
UpdateInvoicesRecorded ==
    /\ cycles < MaxCycles
    /\ \E rows \in SearchResults(Loaded(Controller).registry, today, encashment,
                                  today) :
          /\ Cycle(rows)
          /\ search_result' = rows
    /\ cycles' = cycles + 1
    /\ UNCHANGED facade_vars

\* a call of update_invoices whose post_login answers false (line 456)
LoginFailed ==
    /\ Publish(Loaded(Controller))
    /\ UNCHANGED <<today, encashment, to_date, cycle_done, search_result, cycles,
                   cl_row, fault_vars, search_call, aux_vars, cl_result,
                   facade_vars>>

\* a new DijnetController for the same username (lines 335-338); the files stay
Restart ==
    /\ registry' = None
    /\ paid_invoices' = <<>>
    /\ unpaid_invoices' = <<>>
    /\ cycle_done' = FALSE
    /\ UNCHANGED <<today, encashment, registry_file, ledger_file, to_date,
                   search_result, cycles, cl_row, fault_vars, search_call, aux_vars,
                   cl_result,
                   facade_vars>>

\* the calendar moves on to a later day
Tick ==
    /\ \E d \in Days : d > today /\ today' = d
    /\ UNCHANGED <<encashment, registry_file, ledger_file, registry, paid_invoices,
                   unpaid_invoices, to_date, cycle_done, search_result, cycles,
                   cl_row, fault_vars, search_call, aux_vars, cl_result,
                   facade_vars>>

NoRow == [ state_text |-> <<>>, deadline |-> MIN_DATE ]

\* post_search_invoice not reached yet
NotCalled == [ outcome |-> "pending", datumtol |-> MIN_DATE, datumig |-> MIN_DATE ]

\* the reconciler and its files before the first call
InitCore ==
    /\ today = 100
    /\ encashment = FALSE
    /\ registry_file = NoFile
    /\ ledger_file = NoLedger
    /\ registry = None
    /\ paid_invoices = <<>>
    /\ unpaid_invoices = <<>>
    /\ to_date = MIN_DATE
    /\ cycle_done = FALSE
    /\ search_result = <<>>
    /\ cycles = 0
    /\ cl_row = NoRow
    /\ cl_result = "pending"
    /\ clock = 0
    /\ throttle = None
    /\ pc = [ p \in Callers |-> "idle" ]
    /\ last_success = None
    /\ faults = 0
    /\ fault = "none"
    /\ search_call = NotCalled

\* no usernames at hand
InitNoNames ==
    /\ usernames = <<>>
    /\ filenames = <<>>

NoSetup == [ stage |-> "none", stamp |-> None, left |-> <<>> ]

NotReceived == [ got |-> "nothing", time |-> None, value |-> <<>> ]

\* DijnetController.__init__: self._issuers = [], and nothing throttled yet
InitNoSetup ==
    /\ issuers = <<>>
    /\ issuer_throttle = None
    /\ setup = NoSetup
    /\ received = [ p \in Platforms |-> NotReceived ]

Threads == { 1, 2 }

NoThread == 0

\* self._unpaidInvoices = None
NoneList == << "None" >>

\* sensor.py lines 58-65
NewWrapper ==
    [ lock |-> NoThread, unpaidInvoices |-> NoneList, unpaidInvoicesLastUpdate |-> None ]

\* a thread that is not in updateUnpaidInvoices: how its last call ended, when
\* that call acquired the lock, the stamp and the list it found, the requests
\* it sent, and the locals of the call
Outside ==
    [ at |-> "out", ended |-> "none", acquired |-> None, since |-> None,
      held |-> NoneList, sent |-> 0, page |-> <<>>, unpaidInvoices |-> <<>> ]

\* the wrapper just constructed, no sensor updating
InitNoWrapper ==
    /\ wrapper = NewWrapper
    /\ threads = [ t \in Threads |-> Outside ]

NoLogin == [ response |-> "none", result |-> "none" ]

\* a controller just constructed over no files
NewController ==
    [ registry |-> None, paid |-> <<>>, unpaid |-> <<>>,
      registry_file |-> NoFile, ledger_file |-> NoLedger ]

\* no refresh has run
InitIdle ==
    /\ work = "none"
    /\ where = "idle"
    /\ ended = "none"
    /\ session_open = FALSE
    /\ requests = <<>>
    /\ login = NoLogin
    /\ token = "unread"
    /\ index = 0
    /\ row_no = 0
    /\ before = NewController
    /\ directories = {}
    /\ attachments = <<>>

\* the download directory the config flow stores when none is entered
InitNoSession ==
    /\ download_dir = ""
    /\ files = {}
    /\ InitIdle

Init ==
    /\ InitCore
    /\ InitNoNames
    /\ InitNoSetup
    /\ InitNoWrapper
    /\ InitNoSession

Next == UpdateInvoices \/ LoginFailed \/ Restart \/ Tick

Spec == Init /\ [][Next]_vars

NextRecorded == UpdateInvoicesRecorded \/ LoginFailed \/ Restart \/ Tick

\* at most MaxCycles cycles, each leaving its rows in search_result
SpecRecorded == Init /\ [][NextRecorded]_vars

----------------------------------------------------------------------------
(* _is_invoice_paid alone, on every text of at most MaxPhrases phrases *)

InitClassify ==
    /\ today \in { 100 }
    /\ encashment \in BOOLEAN
    /\ registry_file = NoFile
    /\ ledger_file = NoLedger
    /\ registry = None
    /\ paid_invoices = <<>>
    /\ unpaid_invoices = <<>>
    /\ to_date = MIN_DATE
    /\ cycle_done = FALSE
    /\ search_result = <<>>
    /\ cycles = 0
    /\ cl_row \in [ state_text : ClassifierTexts, deadline : { 99, 100, 101 } ]
    /\ cl_result = "pending"
    /\ clock = 0
    /\ throttle = None
    /\ pc = [ p \in Callers |-> "idle" ]
    /\ last_success = None
    /\ faults = 0
    /\ fault = "none"
    /\ search_call = NotCalled
    /\ InitNoNames
    /\ InitNoSetup
    /\ InitNoWrapper
    /\ InitNoSession

Classify ==
    /\ cl_result = "pending"
    /\ cl_result' = is_invoice_paid(cl_row.state_text, cl_row.deadline, encashment,
                                    today)
    /\ UNCHANGED <<cycle_vars, cl_row, fault_vars, search_call, aux_vars, facade_vars>>

NextClassify == Classify

SpecClassify == InitClassify /\ [][NextClassify]_vars

----------------------------------------------------------------------------
(* update_invoices when a write or a download raises.  Nothing in             *)
(* update_invoices catches an exception: it leaves the method where it is     *)
(* raised, and lines 629-631 are not reached.                                 *)

\* lines 579-631 with the cache assigned before the files are written
PersistFailingPublished(c, rows, flag, now, at) ==
    LET done == MergeAndPersist(c, rows, flag, now)
    IN [ done EXCEPT !.registry_file = c.registry_file,
                     !.ledger_file = IF at = "ledger" THEN c.ledger_file ELSE @ ]

\* lines 579-627 on a loaded controller c when the open of line 608 raises
\* (at = "ledger") or the open of line 626 does (at = "registry"): the ledger
\* file is appended to in the second case, the registry file in neither
PersistFailing(c, rows, flag, now, at) ==
    LET m == Merge(c.paid, c.unpaid,
                   possible_new_paid_invoices(rows, flag, now),
                   possible_new_unpaid_invoices(rows, flag, now))
    IN [ c EXCEPT !.ledger_file = IF at = "registry" /\ Len(m.new) > 0
                                  THEN AppendLedger(c.ledger_file, m.new)
                                  ELSE c.ledger_file ]

\* what a cycle that ends in an exception leaves alone
FaultFrame ==
    UNCHANGED <<today, encashment, to_date, cycle_done, search_result, cycles,
                cl_row, cl_result, facade_vars, search_call, aux_vars>>

\* a cycle with new paid invoices whose append to the ledger file raises
LedgerAppendFails ==
    /\ faults < MaxFaults
    /\ \E rows \in SearchResults(Loaded(Controller).registry, today, encashment,
                                  today) :
          /\ MergeAndPersist(Loaded(Controller), rows, encashment, today).ledger_file
                # ledger_file
          /\ Publish(PersistFailing(Loaded(Controller), rows, encashment, today,
                                    "ledger"))
    /\ faults' = faults + 1
    /\ fault' = "ledger"
    /\ FaultFrame

\* a cycle whose overwrite of the registry file raises
RegistryWriteFails ==
    /\ faults < MaxFaults
    /\ \E rows \in SearchResults(Loaded(Controller).registry, today, encashment,
                                  today) :
          Publish(PersistFailing(Loaded(Controller), rows, encashment, today,
                                 "registry"))
    /\ faults' = faults + 1
    /\ fault' = "registry"
    /\ FaultFrame

\* a cycle with a download directory in which, at a row the classifier knows,
\* get_invoice_download_page, download or the write of the attachment raises
\* (lines 541-574)
DownloadFails ==
    /\ faults < MaxFaults
    /\ \E row \in Rows(Loaded(Controller).registry, today, encashment, today) :
          Verdict(row, encashment, today) # "None"
    /\ Publish(Loaded(Controller))
    /\ faults' = faults + 1
    /\ fault' = "download"
    /\ FaultFrame

NextFaults ==
    UpdateInvoices \/ Restart \/ LedgerAppendFails \/ RegistryWriteFails
        \/ DownloadFails

\* the reconciler with at most MaxFaults cycles ended by an exception
SpecFaults == Init /\ [][NextFaults]_vars

----------------------------------------------------------------------------
(* The throttled facade: get_unpaid_invoices and get_paid_invoices await       *)
(* update_invoices, which @Throttle(MIN_TIME_BETWEEN_UPDATES) wraps.  The      *)
(* wrapper runs without suspension: it compares utcnow() with the time of the  *)
(* last call it let through, and when it lets a call through it creates the    *)
(* coroutine and stamps the time at once, before the coroutine has run; its    *)
(* lock is released when the wrapper returns.  The coroutine suspends at its   *)
(* network calls; lines 579-631 hold no await and run in one piece.  Here a    *)
(* cycle suspends once, at the first request of the session, and runs to its   *)
(* end when that request is answered.                                          *)

\* the wrapper lets the call through: never called, or the last call let through
\* is more than min_time ago
ThrottleLetsThrough(last, now) ==
    last = None \/ now - last > MIN_TIME_BETWEEN_UPDATES

\* get_unpaid_invoices or get_paid_invoices is called: the wrapper of
\* update_invoices either starts a cycle (lines 449-450 run, then the cycle waits
\* for the portal) or answers None at once
Call(p) ==
    /\ pc[p] = "idle"
    /\ IF ThrottleLetsThrough(throttle, clock)
       THEN /\ pc' = [ pc EXCEPT ![p] = "refreshing" ]
            /\ throttle' = clock
            /\ Publish(Loaded(Controller))
       ELSE /\ pc' = [ pc EXCEPT ![p] = "throttled" ]
            /\ UNCHANGED <<throttle, registry, paid_invoices, unpaid_invoices,
                           registry_file, ledger_file>>
    /\ UNCHANGED <<today, encashment, to_date, cycle_done, search_result, cycles,
                   cl_row, fault_vars, search_call, aux_vars, cl_result, clock,
                   last_success>>

\* the throttled call returns the cached list (lines 369, 381)
ReturnCached(p) ==
    /\ pc[p] = "throttled"
    /\ pc' = [ pc EXCEPT ![p] = "idle" ]
    /\ UNCHANGED <<cycle_vars, cl_row, fault_vars, search_call, aux_vars, cl_result,
                   clock,
                   throttle, last_success>>

\* the portal answers, the login succeeds and the cycle runs to its end
CycleEnds(p) ==
    /\ pc[p] = "refreshing"
    /\ \E rows \in SearchResults(Loaded(Controller).registry, today, encashment,
                                  today) : Cycle(rows)
    /\ pc' = [ pc EXCEPT ![p] = "idle" ]
    /\ last_success' = clock
    /\ UNCHANGED <<search_result, cycles, clock, throttle>>

\* post_login answers false (line 456) or a request raises: the call returns or
\* raises with nothing merged
CycleAborts(p) ==
    /\ pc[p] = "refreshing"
    /\ pc' = [ pc EXCEPT ![p] = "idle" ]
    /\ UNCHANGED <<cycle_vars, cl_row, fault_vars, search_call, aux_vars, cl_result,
                   clock,
                   throttle, last_success>>

\* an hour passes
Hour ==
    /\ clock < MaxClock
    /\ clock' = clock + 1
    /\ UNCHANGED <<cycle_vars, cl_row, fault_vars, search_call, aux_vars, cl_result,
                   throttle,
                   pc, last_success>>

NextFacade ==
    \/ \E p \in Callers : Call(p)
    \/ \E p \in Callers : ReturnCached(p)
    \/ \E p \in Callers : CycleEnds(p)
    \/ \E p \in Callers : CycleAborts(p)
    \/ Hour

SpecFacade == Init /\ [][NextFacade]_vars

----------------------------------------------------------------------------
(* The search of update_invoices (lines 458-478) and post_search_invoice *)

\* the parameters of DijnetSession.post_search_invoice after self
post_search_invoice_parameters == <<"provider_name", "reg_id", "from_date", "to_date">>

\* a call of post_search_invoice with positional arguments: Python raises
\* TypeError before the body runs unless there is one argument per parameter;
\* otherwise the form is posted with datumtol and datumig from from_date and
\* to_date
post_search_invoice(args) ==
    IF Len(args) # Len(post_search_invoice_parameters)
    THEN [ outcome |-> "TypeError", datumtol |-> MIN_DATE, datumig |-> MIN_DATE ]
    ELSE [ outcome |-> "posted", datumtol |-> args[3], datumig |-> args[4] ]

\* the arguments of the call at line 478
SearchArguments(from, to) == <<"", "", "vfw_token", from, to>>

\* a controller not yet loaded, over a registry file written at most MaxWindow
\* days ago or over none
InitSearch ==
    /\ today \in Days
    /\ encashment \in BOOLEAN
    /\ registry_file \in { NoFile } \cup { today - d : d \in 0..MaxWindow }
    /\ ledger_file = NoLedger
    /\ registry = None
    /\ paid_invoices = <<>>
    /\ unpaid_invoices = <<>>
    /\ to_date = MIN_DATE
    /\ cycle_done = FALSE
    /\ search_result = <<>>
    /\ cycles = 0
    /\ cl_row = NoRow
    /\ cl_result = "pending"
    /\ clock = 0
    /\ throttle = None
    /\ pc = [ p \in Callers |-> "idle" ]
    /\ last_success = None
    /\ faults = 0
    /\ fault = "none"
    /\ search_call = NotCalled
    /\ InitNoNames
    /\ InitNoSetup
    /\ InitNoWrapper
    /\ InitNoSession

\* lines 449-476: the files are loaded, the login succeeds, the window is
\* computed and the token is read from the search page
LoginAndToken ==
    /\ search_call.outcome = "pending"
    /\ Publish(Loaded(Controller))
    /\ to_date' = today
    /\ search_call' = [ search_call EXCEPT !.outcome = "token" ]
    /\ UNCHANGED <<today, encashment, cycle_done, search_result, cycles, cl_row,
                   cl_result, fault_vars, facade_vars, aux_vars>>

\* line 478
SubmitSearch ==
    /\ search_call.outcome = "token"
    /\ search_call' = post_search_invoice(SearchArguments(registry, to_date))
    /\ UNCHANGED <<cycle_vars, cl_row, cl_result, fault_vars, facade_vars, aux_vars>>

NextSearch == LoginAndToken \/ SubmitSearch

SpecSearch == InitSearch /\ [][NextSearch]_vars

----------------------------------------------------------------------------
(* The names of the two files (lines 798-803) *)

\* the characters of a username: a letter in both cases, another letter, and a
\* character that is neither letter nor digit
NameChars == { "a", "A", "b", "." }

Usernames == SeqsUpTo(NameChars, MaxName) \ { <<>> }

\* slugify on one character: a letter is lowered, what is neither letter nor
\* digit becomes the separator
SlugChar(c) ==
    IF c = "A" THEN "a"
    ELSE IF c = "X" THEN "x"
    ELSE IF c = "Y" THEN "y"
    ELSE IF c = "." THEN "_"
    ELSE c

\* a run of separators becomes one, those at the beginning none
RECURSIVE Squeeze(_, _)
Squeeze(text, after_separator) ==
    IF text = <<>> THEN <<>>
    ELSE IF Head(text) = "_"
         THEN (IF after_separator THEN <<>> ELSE << "_" >>) \o Squeeze(Tail(text), TRUE)
         ELSE << Head(text) >> \o Squeeze(Tail(text), FALSE)

\* the separator at the end is dropped
StripEnd(text) ==
    IF text # <<>> /\ text[Len(text)] = "_" THEN SubSeq(text, 1, Len(text) - 1)
    ELSE text

\* homeassistant.util.slugify(text), the separator being "_"
slugify(text) ==
    LET slug == StripEnd(Squeeze([ i \in 1..Len(text) |-> SlugChar(text[i]) ], TRUE))
    IN IF text = <<>> THEN <<>>
       ELSE IF slug = <<>> THEN << "unknown" >>
       ELSE slug

\* PAID_INVOICES_FILENAME.format(slugify(username))
get_paid_invoices_filename(username) ==
    << ".dijnet_paid_invoices_" >> \o slugify(username) \o << ".yaml" >>

\* REGISTRY_FILENAME.format(slugify(username))
get_registry_filename(username) ==
    << ".dijnet_registry_" >> \o slugify(username) \o << ".yaml" >>

NoNames == [ paid |-> <<>>, registry |-> <<>> ]

\* two controllers, neither has named its files yet
InitNames ==
    /\ InitCore
    /\ usernames \in Usernames \X Usernames
    /\ filenames = << NoNames, NoNames >>
    /\ InitNoSetup
    /\ InitNoWrapper
    /\ InitNoSession

\* lines 707-708, in the first refresh of controller k
NameFiles(k) ==
    /\ filenames[k] = NoNames
    /\ filenames' = [ filenames EXCEPT
                        ![k] = [ paid     |-> get_paid_invoices_filename(usernames[k]),
                                 registry |-> get_registry_filename(usernames[k]) ] ]
    /\ UNCHANGED <<cycle_vars, cl_row, cl_result, fault_vars, facade_vars, search_call,
                   usernames, setup_vars, session_vars, wrapper_vars>>

NextNames == \E k \in { 1, 2 } : NameFiles(k)

SpecNames == InitNames /\ [][NextNames]_vars

----------------------------------------------------------------------------
(* The load of a ledger file that something else has damaged *)

\* entries as to_dictionary writes them
WellFormedEntries ==
    { to_dictionary(PaidInvoice("X", "Aram", "123", 95, 1000, 101, 97)),
      to_dictionary(PaidInvoice("Y", "Aram", "123", 95, 1000, 101, 101)) }

\* an entry that has lost its paid_at, and a scalar where a mapping should be
MalformedEntries ==
    { Invoice("X", "Aram", "123", 40, 1000, 99), [ scalar |-> "123" ] }

\* a new controller over a registry file and a ledger file of entries of both kinds
InitLoad ==
    /\ today = 100
    /\ encashment = FALSE
    /\ registry_file = 69
    /\ ledger_file \in [ exists : { TRUE },
                         entries : SeqsUpTo(WellFormedEntries \cup MalformedEntries,
                                            MaxEntries) ]
    /\ registry = None
    /\ paid_invoices = <<>>
    /\ unpaid_invoices = <<>>
    /\ to_date = MIN_DATE
    /\ cycle_done = FALSE
    /\ search_result = <<>>
    /\ cycles = 0
    /\ cl_row = NoRow
    /\ cl_result = "pending"
    /\ clock = 0
    /\ throttle = None
    /\ pc = [ p \in Callers |-> "idle" ]
    /\ last_success = None
    /\ faults = 0
    /\ fault = "none"
    /\ search_call = NotCalled
    /\ InitNoNames
    /\ InitNoSetup
    /\ InitNoWrapper
    /\ InitNoSession

NextLoad == LoginFailed \/ Restart

\* the first call of update_invoices, ended by its login, and new controllers
SpecLoad == InitLoad /\ [][NextLoad]_vars

----------------------------------------------------------------------------
(* async_setup_entry, get_issuers and the throttled update_registered_issuers *)

\* the lists of issuers the registered-providers page can show
IssuerLists == { <<>>, << "X" >>, << "X", "Y" >> }

\* how the body of update_registered_issuers can end
RefreshOutcomes == { "listed", "login failed", "raised" }

\* get_issuers when the call of update_registered_issuers was throttled, had it
\* returned what that call returned
get_issuers_throttled_none(held, now) ==
    [ got |-> "none", time |-> now, value |-> <<>> ]

\* get_issuers when the call of update_registered_issuers was throttled: the
\* call returns None at once and line 393 returns self._issuers
get_issuers_throttled(held, now) ==
    [ got |-> "list", time |-> now, value |-> held ]

\* Throttle(MIN_TIME_BETWEEN_ISSUER_UPDATES)
IssuerThrottleLetsThrough(last, now) ==
    last = None \/ now - last > MIN_TIME_BETWEEN_ISSUER_UPDATES

SetupFrame ==
    UNCHANGED <<cycle_vars, cl_row, cl_result, fault_vars, throttle, pc, last_success,
                search_call, names_vars, session_vars, wrapper_vars>>

\* __init__.py lines 53-67: the controller is made and get_issuers is awaited;
\* nothing was throttled before, so the body of update_registered_issuers starts
SetupEntry ==
    /\ setup.stage = "none"
    /\ IssuerThrottleLetsThrough(issuer_throttle, clock)
    /\ issuer_throttle' = clock
    /\ setup' = [ stage |-> "refreshing", stamp |-> clock, left |-> <<>> ]
    /\ UNCHANGED <<clock, issuers, received>>
    /\ SetupFrame

\* lines 400-440 end, then __init__.py lines 69-73: the body assigns the list it
\* has scraped, or returns at line 408, and the platforms are forwarded; or it
\* raises, and the exception leaves async_setup_entry before line 71
FirstRefreshEnds ==
    /\ setup.stage = "refreshing"
    /\ \E outcome \in RefreshOutcomes :
          \/ /\ outcome = "listed"
             /\ \E list \in IssuerLists :
                   /\ issuers' = list
                   /\ setup' = [ setup EXCEPT !.stage = "forwarded", !.left = list ]
          \/ /\ outcome = "login failed"
             /\ issuers' = issuers
             /\ setup' = [ setup EXCEPT !.stage = "forwarded", !.left = issuers ]
          \/ /\ outcome = "raised"
             /\ issuers' = issuers
             /\ setup' = [ setup EXCEPT !.stage = "failed" ]
    /\ UNCHANGED <<clock, issuer_throttle, received>>
    /\ SetupFrame

\* async_setup_entry of a platform calls get_issuers (calendar.py line 191)
PlatformGetIssuers(p) ==
    /\ setup.stage = "forwarded"
    /\ received[p].got = "nothing"
    /\ IF IssuerThrottleLetsThrough(issuer_throttle, clock)
       THEN /\ issuer_throttle' = clock
            /\ received' = [ received EXCEPT
                               ![p] = [ got |-> "refreshing", time |-> clock,
                                        value |-> <<>> ] ]
       ELSE /\ issuer_throttle' = issuer_throttle
            /\ received' = [ received EXCEPT
                               ![p] = get_issuers_throttled(issuers, clock) ]
    /\ UNCHANGED <<clock, issuers, setup>>
    /\ SetupFrame

\* the refresh a platform's call has started ends
PlatformRefreshEnds(p) ==
    /\ received[p].got = "refreshing"
    /\ \E outcome \in RefreshOutcomes :
          \/ /\ outcome = "listed"
             /\ \E list \in IssuerLists :
                   /\ issuers' = list
                   /\ received' = [ received EXCEPT ![p].got = "list",
                                                    ![p].value = list ]
          \/ /\ outcome = "login failed"
             /\ issuers' = issuers
             /\ received' = [ received EXCEPT ![p].got = "list",
                                              ![p].value = issuers ]
          \/ /\ outcome = "raised"
             /\ issuers' = issuers
             /\ received' = [ received EXCEPT ![p].got = "raised" ]
    /\ UNCHANGED <<clock, issuer_throttle, setup>>
    /\ SetupFrame

\* an hour or a day passes
SetupTime ==
    /\ \E d \in { 1, MIN_TIME_BETWEEN_ISSUER_UPDATES } :
          /\ clock + d <= MaxSetupClock
          /\ clock' = clock + d
    /\ UNCHANGED <<issuers, issuer_throttle, setup, received>>
    /\ SetupFrame

NextSetup ==
    \/ SetupEntry
    \/ FirstRefreshEnds
    \/ \E p \in Platforms : PlatformGetIssuers(p)
    \/ \E p \in Platforms : PlatformRefreshEnds(p)
    \/ SetupTime

SpecSetup == Init /\ [][NextSetup]_vars

----------------------------------------------------------------------------
(* update_invoices and update_registered_issuers request by request, each on  *)
(* the DijnetSession it opens with "async with".  One refresh runs at a time. *)
(* An exception raised inside the block leaves it through __aexit__ and then   *)
(* leaves the method: neither method has a try statement.                      *)

\* Python's None as a download directory: the default of the constructor
NoDirectory == "None"

\* self._download_dir: None, the "" the config flow stores, or a directory
DownloadDirs == { NoDirectory, "", "/invoices" }

\* what the login request can meet: an error of the transport, a body that is
\* not JSON, JSON that is no object, an object without 'success', or an object
\* with the flag
LoginResponses ==
    { "transport error", "not json", "json array", "no success key",
      "success false", "success true" }

\* DijnetSession.post_login: "raised" when self._session.post, response.json or
\* json['success'] raises, else the flag
post_login(response) ==
    IF response = "success true" THEN "True"
    ELSE IF response = "success false" THEN "False"
    ELSE "raised"

\* a refresh that goes on whatever post_login returned
login_lets_on_always(result) == TRUE

\* lines 407 and 455: "if not await session.post_login(...): return"
login_lets_on(result) == result = "True"

\* next() with a default in place of the missing input
next_token_or_default(found) == "token"

\* lines 466-476: next() of the inputs named vfw_token of the search form;
\* StopIteration when there is none
next_token(found) == IF found = "found" THEN "token" ELSE "raised"

\* a block that tests nothing before it downloads
download_always(dir) == TRUE

\* line 541
download_configured(dir) == dir # ""

\* a test that never finds the file
path_exists_never(full_path, on_disk) == FALSE

\* line 568: path.exists(full_path)
path_exists(full_path, on_disk) == full_path \in on_disk

\* the links of a download page (line 551), each href up to its "?" and split
\* at "_"
DownloadLinks == << << "szamla", "pdf" >>, << "szamla", "xml" >> >>

\* line 555: href.split("?")[0].split("_")[-1]
extension(href) == href[Len(href)]

\* line 556: href.split("?")[0][:-4], the extension having three letters
name(href) == SubSeq(href, 1, Len(href) - 1)

\* line 542: path.join(self._download_dir, slugify(invoice.provider))
Directory(dir, invoice) == << dir >> \o slugify(<< invoice.provider >>)

\* lines 557-566: the directory, and the file name made of the issuance date, the
\* invoice number, the name and the extension
FullPath(directory, invoice, href) ==
    [ directory |-> directory,
      filename  |-> << invoice.issuance_date, invoice.invoice_no >> \o name(href)
                       \o << extension(href) >> ]

\* a file that the download directory can hold before the first refresh
ForeignFile ==
    FullPath(<< "/invoices", "x" >>, [ issuance_date |-> 40, invoice_no |-> "123" ],
             DownloadLinks[1])

\* lines 551-574: each link is downloaded and written unless its file exists
RECURSIVE download_links(_, _, _, _)
download_links(links, directory, invoice, st) ==
    IF links = <<>> THEN st
    ELSE LET full_path == FullPath(directory, invoice, Head(links))
             next == IF path_exists(full_path, st.files) THEN st
                     ELSE [ st EXCEPT !.requests = Append(@, "download"),
                                      !.files = @ \cup { full_path },
                                      !.attachments = Append(@, full_path) ]
         IN download_links(Tail(links), directory, invoice, next)

\* what the row loop has at hand
LoopState ==
    [ requests |-> requests, directories |-> directories, files |-> files,
      attachments |-> attachments, index |-> index, raised |-> FALSE ]

\* lines 485-577 for one row: an unknown row is passed over; a paid row has its
\* page and its history fetched; with a download directory the directory is
\* made, the page and the download page are fetched and the links gone through
\* (path.join raises when the directory is None); then the list page is fetched
HandleRow(row, st) ==
    LET verdict == Verdict(row, encashment, today)
        invoice == create_invoice_from_row(row, None)
        classified == IF verdict = "True"
                      THEN [ st EXCEPT !.requests = @ \o << "invoice_page", "history" >> ]
                      ELSE st
        directory == Directory(download_dir, invoice)
        made == [ classified EXCEPT
                    !.directories = @ \cup { directory },
                    !.requests = @ \o << "invoice_page", "download_page" >> ]
        downloaded == download_links(DownloadLinks, directory, invoice, made)
        listed(s) == [ s EXCEPT !.requests = Append(@, "list"), !.index = @ + 1 ]
    IN IF verdict = "None" THEN st
       ELSE IF ~download_configured(download_dir) THEN listed(classified)
       ELSE IF download_dir = NoDirectory THEN [ classified EXCEPT !.raised = TRUE ]
       ELSE listed(downloaded)

\* the rows the search of SpecSession can show
SessionRows(from, to, flag, now) ==
    { row \in Rows(from, to, flag, now) :
        /\ row.provider = "X" => row.issuance_date = 40
        /\ row.provider = "Y" => row.state_text = << "Rendezetlen" >>
        /\ Verdict(row, flag, now) = "True" => row.history = << HistorySuccess >> }

SessionSearchResults(from, to, flag, now) ==
    SeqsUpTo(SessionRows(from, to, flag, now), MaxSessionRows)

cache_vars == <<registry_file, ledger_file, registry, paid_invoices, unpaid_invoices,
                to_date, cycle_done>>

disk_vars == <<directories, files, attachments>>

loop_vars == <<search_result, index, row_no>>

\* what no step of a refresh changes
MergeFrame ==
    UNCHANGED <<today, encashment, cycles, cl_row, cl_result, facade_vars,
                search_call, names_vars, issuer_throttle, setup, received,
                download_dir, wrapper_vars>>

\* what no step but a failing write changes
SessionFrame == MergeFrame /\ UNCHANGED fault_vars

\* a block left without the session being closed when an exception leaves it
SessionExitUnlessRaised(how) ==
    /\ ended' = how
    /\ session_open' = (how = "raised")
    /\ where' = where

\* the "async with" block is left: DijnetSession.__aexit__ closes the
\* aiohttp.ClientSession, whatever has ended the block
SessionExit(how) ==
    /\ ended' = how
    /\ session_open' = FALSE
    /\ where' = where

\* the refresh goes on to its next step
Going(next) ==
    /\ where' = next
    /\ UNCHANGED <<ended, session_open>>

\* a request of the session: it is answered or it raises
Request(here, next) ==
    /\ ended = "running"
    /\ where = here
    /\ requests' = Append(requests, here)
    /\ \E answered \in BOOLEAN :
          IF answered THEN Going(next) ELSE SessionExit("raised")

\* what a refresh sets when it begins
Begin(kind) ==
    /\ ended # "running"
    /\ before' = Controller
    /\ work' = kind
    /\ where' = "root"
    /\ ended' = "running"
    /\ session_open' = TRUE
    /\ requests' = <<>>
    /\ login' = NoLogin
    /\ token' = "unread"
    /\ search_result' = <<>>
    /\ index' = 0
    /\ row_no' = 0
    /\ UNCHANGED <<to_date, cycle_done, issuers, disk_vars>>
    /\ SessionFrame

\* lines 449-452: the files are loaded by the first call, the session is opened
StartInvoices ==
    /\ Begin("invoices")
    /\ Publish(Loaded(Controller))

\* line 404
StartIssuers ==
    /\ Begin("issuers")
    /\ UNCHANGED <<registry_file, ledger_file, registry, paid_invoices,
                   unpaid_invoices>>

\* lines 405 and 453
GetRootPage ==
    /\ Request("root", "login")
    /\ UNCHANGED <<cache_vars, issuers, disk_vars, loop_vars, work, login, token,
                   before>>
    /\ SessionFrame

\* lines 407-408 and 455-456
PostLogin ==
    /\ ended = "running"
    /\ where = "login"
    /\ requests' = Append(requests, "login")
    /\ \E response \in LoginResponses :
          LET result == post_login(response)
          IN /\ login' = [ response |-> response, result |-> result ]
             /\ IF result = "raised" THEN SessionExit("raised")
                ELSE IF login_lets_on(result) THEN Going("main")
                ELSE SessionExit("returned")
    /\ UNCHANGED <<cache_vars, issuers, disk_vars, loop_vars, work, token, before>>
    /\ SessionFrame

\* lines 410 and 461
GetMainPage ==
    /\ Request("main", "search_page")
    /\ UNCHANGED <<cache_vars, issuers, disk_vars, loop_vars, work, login, token,
                   before>>
    /\ SessionFrame

\* lines 412 and 463: the page of the search form, with the token or without
GetInvoiceSearchPage ==
    /\ ended = "running"
    /\ where = "search_page"
    /\ requests' = Append(requests, "search_page")
    /\ \E answer \in { "raised", "found", "missing" } :
          IF answer = "raised"
          THEN SessionExit("raised") /\ token' = token
          ELSE /\ Going(IF work = "invoices" THEN "token" ELSE "new_providers")
               /\ token' = IF work = "invoices" THEN answer ELSE token
    /\ UNCHANGED <<cache_vars, issuers, disk_vars, loop_vars, work, login, before>>
    /\ SessionFrame

\* lines 466-476
ReadToken ==
    /\ ended = "running"
    /\ where = "token"
    /\ IF next_token(token) = "raised" THEN SessionExit("raised")
       ELSE Going("search")
    /\ UNCHANGED <<cache_vars, issuers, disk_vars, loop_vars, work, login, token,
                   before, requests>>
    /\ SessionFrame

\* line 478, the call taken to reach the portal, and line 480
PostSearch ==
    /\ ended = "running"
    /\ where = "search"
    /\ requests' = Append(requests, "search")
    /\ \/ /\ SessionExit("raised")
          /\ search_result' = search_result
       \/ /\ Going("rows")
          /\ search_result' \in SessionSearchResults(registry, today, encashment,
                                                     today)
    /\ UNCHANGED <<cache_vars, issuers, disk_vars, index, row_no, work, login, token,
                   before>>
    /\ SessionFrame

\* lines 484-577 for the next row; the request of line 577 can raise
ProcessRow ==
    /\ ended = "running"
    /\ where = "rows"
    /\ row_no < Len(search_result)
    /\ LET row == search_result[row_no + 1]
           st == HandleRow(row, LoopState)
       IN /\ requests' = st.requests
          /\ directories' = st.directories
          /\ files' = st.files
          /\ attachments' = st.attachments
          /\ index' = st.index
          /\ \E answered \in BOOLEAN :
                IF st.raised \/ (~answered /\ Verdict(row, encashment, today) # "None")
                THEN SessionExit("raised")
                ELSE Going("rows")
    /\ row_no' = row_no + 1
    /\ UNCHANGED <<cache_vars, issuers, search_result, work, login, token, before>>
    /\ SessionFrame

\* lines 579-631 once the rows are through: both writes succeed, or the append
\* to the ledger file raises, or the overwrite of the registry file does (at
\* most MaxFaults times in all)
MergePersist ==
    /\ ended = "running"
    /\ where = "rows"
    /\ row_no = Len(search_result)
    /\ \/ /\ Publish(MergeAndPersist(Controller, search_result, encashment, today))
          /\ to_date' = today
          /\ cycle_done' = TRUE
          /\ SessionExit("completed")
          /\ UNCHANGED fault_vars
       \/ /\ faults < MaxFaults
          /\ MergeAndPersist(Controller, search_result, encashment, today).ledger_file
                # ledger_file
          /\ Publish(PersistFailing(Controller, search_result, encashment, today,
                                    "ledger"))
          /\ faults' = faults + 1
          /\ fault' = "ledger"
          /\ UNCHANGED <<to_date, cycle_done>>
          /\ SessionExit("raised")
       \/ /\ faults < MaxFaults
          /\ Publish(PersistFailing(Controller, search_result, encashment, today,
                                    "registry"))
          /\ faults' = faults + 1
          /\ fault' = "registry"
          /\ UNCHANGED <<to_date, cycle_done>>
          /\ SessionExit("raised")
    /\ UNCHANGED <<issuers, disk_vars, loop_vars, work, login, token, before,
                   requests>>
    /\ MergeFrame

\* line 420
GetNewProvidersPage ==
    /\ Request("new_providers", "registered_providers")
    /\ UNCHANGED <<cache_vars, issuers, disk_vars, loop_vars, work, login, token,
                   before>>
    /\ SessionFrame

\* a scrape that appends each issuer to self._issuers as it finds it: what it
\* has appended stays when it raises
GetRegisteredProvidersPageAppending ==
    /\ ended = "running"
    /\ where = "registered_providers"
    /\ requests' = Append(requests, "registered_providers")
    /\ \/ /\ SessionExit("raised")
          /\ issuers' \in IssuerLists
       \/ /\ SessionExit("completed")
          /\ issuers' \in IssuerLists
    /\ UNCHANGED <<cache_vars, disk_vars, loop_vars, work, login, token, before>>
    /\ SessionFrame

\* lines 422-440
GetRegisteredProvidersPage ==
    /\ ended = "running"
    /\ where = "registered_providers"
    /\ requests' = Append(requests, "registered_providers")
    /\ \/ /\ SessionExit("raised")
          /\ issuers' = issuers
       \/ /\ SessionExit("completed")
          /\ issuers' \in IssuerLists
    /\ UNCHANGED <<cache_vars, disk_vars, loop_vars, work, login, token, before>>
    /\ SessionFrame

\* a new DijnetController for the same username and directory, no refresh
\* running: nothing of the refreshes of the old one is left but the files
SessionRestart ==
    /\ ended # "running"
    /\ registry' = None
    /\ paid_invoices' = <<>>
    /\ unpaid_invoices' = <<>>
    /\ issuers' = <<>>
    /\ cycle_done' = FALSE
    /\ work' = "none"
    /\ where' = "idle"
    /\ ended' = "none"
    /\ requests' = <<>>
    /\ login' = NoLogin
    /\ token' = "unread"
    /\ search_result' = <<>>
    /\ index' = 0
    /\ row_no' = 0
    /\ before' = NewController
    /\ UNCHANGED <<registry_file, ledger_file, to_date, disk_vars, session_open>>
    /\ SessionFrame

\* the controller as constructed with one of the download directories; a
\* directory can hold a file already
InitSession ==
    /\ InitCore
    /\ InitNoNames
    /\ InitNoSetup
    /\ InitNoWrapper
    /\ download_dir \in DownloadDirs
    /\ files \in IF download_dir = "/invoices" THEN { {}, { ForeignFile } } ELSE { {} }
    /\ InitIdle

NextSession ==
    \/ StartInvoices
    \/ StartIssuers
    \/ GetRootPage
    \/ PostLogin
    \/ GetMainPage
    \/ GetInvoiceSearchPage
    \/ ReadToken
    \/ PostSearch
    \/ ProcessRow
    \/ MergePersist
    \/ GetNewProvidersPage
    \/ GetRegisteredProvidersPage
    \/ SessionRestart

SpecSession == InitSession /\ [][NextSession]_vars

----------------------------------------------------------------------------
(* The wrapper of sensor.py.  The update() of every sensor calls            *)
(* updateUnpaidInvoices (line 265), and getUnpaidInvoices calls it while    *)
(* the list is None (line 69); the calls come on threads.  The clock is in  *)
(* hours: a thread acquires the lock (line 117) and reads datetime.now()    *)
(* (lines 87 and 124) at one reading of it.                                 *)

SCAN_INTERVAL == 3

MaxWrapperClock == 4

MaxWrapperRows == 1

\* the invoice numbers of the rows of the main page
WrapperInvoices == { "A", "B" }

WrapperPages == SeqsUpTo(WrapperInvoices, MaxWrapperRows)

\* lines 83-87, for a stamp that is not None
getUnpaidInvoicesAge(w, now) == now - w.unpaidInvoicesLastUpdate

\* lines 77-81
isUnpaidInvoicesUpdatedNotLongAgo(w, now) ==
    IF w.unpaidInvoicesLastUpdate = None
    THEN FALSE
    ELSE getUnpaidInvoicesAge(w, now) < SCAN_INTERVAL

WrapperFrame ==
    UNCHANGED <<cycle_vars, cl_row, cl_result, fault_vars, throttle, pc, last_success,
                search_call, names_vars, setup_vars, session_vars>>

\* the thread leaves the with block, having sent n more requests
Left(th, how, n) == [ th EXCEPT !.at = "out", !.ended = how, !.sent = @ + n ]

\* the with statement releases the lock however the block is left
Leave(t, how, n) ==
    /\ threads' = [ threads EXCEPT ![t] = Left(threads[t], how, n) ]
    /\ wrapper' = [ wrapper EXCEPT !.lock = NoThread ]

\* lines 116-117: the call, which waits for the lock
updateUnpaidInvoices(t) ==
    /\ threads[t].at = "out"
    /\ threads' = [ threads EXCEPT ![t] = [ Outside EXCEPT !.at = "waiting" ] ]
    /\ UNCHANGED <<wrapper, clock>>
    /\ WrapperFrame

\* what line 118 and line 124 do once the thread is in the with block
Enter(t) ==
    LET entered == [ threads[t] EXCEPT !.acquired = clock,
                                       !.since = wrapper.unpaidInvoicesLastUpdate,
                                       !.held = wrapper.unpaidInvoices ]
    IN  /\ IF isUnpaidInvoicesUpdatedNotLongAgo(wrapper, clock)
           THEN /\ wrapper' = [ wrapper EXCEPT !.lock = t ]
                /\ threads' = [ threads EXCEPT ![t] = [ entered EXCEPT !.at = "skip" ] ]
           ELSE /\ wrapper' = [ wrapper EXCEPT !.lock = t,
                                               !.unpaidInvoicesLastUpdate = clock ]
                /\ threads' = [ threads EXCEPT ![t] = [ entered EXCEPT !.at = "login" ] ]
        /\ UNCHANGED clock
        /\ WrapperFrame

\* a with block that does not wait for the lock
AcquireLockUnguarded(t) ==
    /\ threads[t].at = "waiting"
    /\ Enter(t)

\* lines 117-124: the lock is acquired when no thread holds it; the age of the
\* list is tested, and the update is stamped before the login
AcquireLock(t) ==
    /\ threads[t].at = "waiting"
    /\ wrapper.lock = NoThread
    /\ Enter(t)

\* lines 119-121
SkipUpdate(t) ==
    /\ threads[t].at = "skip"
    /\ Leave(t, "skipped", 0)
    /\ UNCHANGED clock
    /\ WrapperFrame

\* lines 125-127 and login (lines 207-220): the get of the root page or the post
\* raises, or json.loads does; the login is refused; the login succeeds
WrapperLogin(t) ==
    /\ threads[t].at = "login"
    /\ \/ \E n \in { 1, 2 } : Leave(t, "raised", n)
       \/ Leave(t, "returned", 2)
       \/ /\ threads' = [ threads EXCEPT ![t].at = "main", ![t].sent = @ + 2 ]
          /\ UNCHANGED wrapper
    /\ UNCHANGED clock
    /\ WrapperFrame

\* lines 129-136
LoadMain(t) ==
    /\ threads[t].at = "main"
    /\ \/ Leave(t, "raised", 1)
       \/ /\ \E rows \in WrapperPages :
                threads' = [ threads EXCEPT ![t].at = "rows", ![t].sent = @ + 1,
                                            ![t].page = rows,
                                            ![t].unpaidInvoices = <<>> ]
          /\ UNCHANGED wrapper
    /\ UNCHANGED clock
    /\ WrapperFrame

\* lines 137-203, one row: float() or one of the requests raises, or the row is
\* appended to the local list, its two pages are loaded and its files, when
\* there is a download directory and they are not on the disk, are downloaded
ParseRow(t) ==
    /\ threads[t].at = "rows"
    /\ Len(threads[t].unpaidInvoices) < Len(threads[t].page)
    /\ \/ \E n \in 0..3 : Leave(t, "raised", n)
       \/ /\ \E downloads \in { 0, 1 } :
                threads' = [ threads EXCEPT
                    ![t].sent = @ + 2 + downloads,
                    ![t].unpaidInvoices =
                        Append(@, threads[t].page[Len(threads[t].unpaidInvoices) + 1]) ]
          /\ UNCHANGED wrapper
    /\ UNCHANGED clock
    /\ WrapperFrame

\* lines 204-205
AssignUnpaidInvoices(t) ==
    /\ threads[t].at = "rows"
    /\ Len(threads[t].unpaidInvoices) = Len(threads[t].page)
    /\ threads' = [ threads EXCEPT ![t] = Left(threads[t], "updated", 0) ]
    /\ wrapper' = [ wrapper EXCEPT !.lock = NoThread,
                                   !.unpaidInvoices = threads[t].unpaidInvoices ]
    /\ UNCHANGED clock
    /\ WrapperFrame

\* an hour passes
WrapperTick ==
    /\ clock < MaxWrapperClock
    /\ clock' = clock + 1
    /\ UNCHANGED wrapper_vars
    /\ WrapperFrame

NextWrapper ==
    \/ \E t \in Threads : updateUnpaidInvoices(t)
    \/ \E t \in Threads : AcquireLock(t)
    \/ \E t \in Threads : SkipUpdate(t)
    \/ \E t \in Threads : WrapperLogin(t)
    \/ \E t \in Threads : LoadMain(t)
    \/ \E t \in Threads : ParseRow(t)
    \/ \E t \in Threads : AssignUnpaidInvoices(t)
    \/ WrapperTick

SpecWrapper == Init /\ [][NextWrapper]_vars

----------------------------------------------------------------------------
(* Vocabulary of the properties *)

KeysOf(list) == { Key(list[i]) : i \in 1..Len(list) }

Count(list, k) == Cardinality({ i \in 1..Len(list) : Key(list[i]) = k })

NoDuplicateKeys(list) ==
    \A i, j \in 1..Len(list) : Key(list[i]) = Key(list[j]) => i = j

Min(S) == CHOOSE x \in S : \A y \in S : x <= y

\* the controller as update_invoices finds it once the files are loaded
Cur == Loaded(Controller)

\* the search results the next cycle can meet, and the controller after it
Snapshots == SearchResults(Cur.registry, today, encashment, today)
After(rows) == MergeAndPersist(Cur, rows, encashment, today)

IsPaidRow(row) == Verdict(row, encashment, today) = "True"
IsUnpaidRow(row) == Verdict(row, encashment, today) = "False"
IsUnknownRow(row) == Verdict(row, encashment, today) = "None"

\* a step of SpecRecorded that is a cycle run to its end
CycleStep == cycles' = cycles + 1

\* the search result shows every key at most once
ShowsEachKeyOnce(rows) ==
    \A i, j \in 1..Len(rows) : Key(rows[i]) = Key(rows[j]) => i = j

HasSuccess(history) == \E i \in 1..Len(history) : history[i].text = ATTR_PAID_SUCCESS

SuccessDate(history) ==
    history[CHOOSE i \in 1..Len(history) : history[i].text = ATTR_PAID_SUCCESS].date

----------------------------------------------------------------------------
(* C1: running the merge-and-persist of update_invoices a second time on the  *)
(* same search result, on the same day, changes neither the paid list, the    *)
(* unpaid list, the registry nor the two files: nothing is appended to the    *)
(* ledger file and no entry is duplicated.                                    *)
C1_IdempotentMerge ==
    \A rows \in Snapshots :
        LET once == After(rows)
        IN MergeAndPersist(once, rows, encashment, today) = once

\* a controller that has run a cycle and holds paid and unpaid invoices, about
\* to meet a search result with a paid and an unpaid row that changes its ledger
C1_Witness ==
    /\ cycle_done
    /\ Len(paid_invoices) > 0
    /\ Len(unpaid_invoices) > 0
    /\ \E rows \in Snapshots :
          /\ \E i \in 1..Len(rows) : IsPaidRow(rows[i])
          /\ \E i \in 1..Len(rows) : IsUnpaidRow(rows[i])
          /\ After(rows).ledger_file # ledger_file
          /\ MergeAndPersist(After(rows), rows, encashment, today) = After(rows)

----------------------------------------------------------------------------
(* C2: when the unpaid list holds an invoice with key K and the next search   *)
(* result has a row with key K that the classifier calls paid, whatever its   *)
(* amount, dates or payment history, the cycle leaves no invoice with key K   *)
(* in the unpaid list and adds exactly one entry for K to the paid list and   *)
(* to the ledger file.  (Stated for a K the paid list does not hold yet and   *)
(* for search results that show each key once.)                               *)
C2_UnpaidBecomesPaid ==
    [][ (CycleStep /\ ShowsEachKeyOnce(search_result'))
        => \A k \in KeysOf(unpaid_invoices) \ KeysOf(paid_invoices) :
              (\E i \in 1..Len(search_result') :
                  Key(search_result'[i]) = k /\ IsPaidRow(search_result'[i]))
              => /\ k \notin KeysOf(unpaid_invoices')
                 /\ Count(paid_invoices', k) = Count(paid_invoices, k) + 1
                 /\ Count(ledger_file'.entries, k)
                      = Count(ledger_file.entries, k) + 1 ]_vars

----------------------------------------------------------------------------
(* C3: with neither registry file nor ledger file, the first cycle searches   *)
(* from MIN_DATE to today and ends with a ledger file that holds exactly one  *)
(* entry for every row of the search result the classifier called paid, and   *)
(* no other entry, whatever the history page of such a row holds.             *)
C3_FirstRunLedger ==
    [][ (CycleStep /\ registry = None /\ registry_file = NoFile
           /\ ~ledger_file.exists)
        => /\ Cur.registry = MIN_DATE
           /\ to_date' = today
           /\ \A i \in 1..Len(search_result') :
                 IsPaidRow(search_result'[i])
                 => Count(ledger_file'.entries, Key(search_result'[i])) = 1
           /\ \A n \in 1..Len(ledger_file'.entries) :
                 \E i \in 1..Len(search_result') :
                    /\ IsPaidRow(search_result'[i])
                    /\ Key(search_result'[i]) = Key(ledger_file'.entries[n]) ]_vars

----------------------------------------------------------------------------
(* C4: the paid_at recorded for a row the classifier called paid is the date  *)
(* of the successful-payment entry of its history page when the page has such *)
(* an entry at any position, and the deadline of the row only when it has     *)
(* none.  (Stated for search results that show each key once.)                *)
C4_PaidAtFromHistory ==
    [][ (CycleStep /\ ShowsEachKeyOnce(search_result'))
        => \A i \in 1..Len(search_result') :
              LET row == search_result'[i]
              IN IsPaidRow(row)
                 => \A n \in (Len(ledger_file.entries) + 1)
                               ..Len(ledger_file'.entries) :
                       Key(ledger_file'.entries[n]) = Key(row)
                       => ledger_file'.entries[n].paid_at =
                            IF HasSuccess(row.history) THEN SuccessDate(row.history)
                            ELSE row.deadline ]_vars

----------------------------------------------------------------------------
----------------------------------------------------------------------------
(* C6: a status text that holds a paid phrase and a known-unpaid phrase is    *)
(* classified paid.                                                           *)
HoldsAny(text, phrases) == \E ph \in phrases : Contains(text, ph)

----------------------------------------------------------------------------
(* C7: a status text that holds a collection phrase and neither a paid nor a  *)
(* known-unpaid phrase is classified paid exactly when the encashment flag is *)
(* set and the deadline is before today; with the flag unset, or with the     *)
(* deadline today or later, it is classified unpaid.                          *)
C7_EncashmentRule ==
    (cl_result # "pending" /\ HoldsAny(cl_row.state_text, CollectionPhrases)
       /\ ~HoldsAny(cl_row.state_text, PaidPhrases \cup UnpaidPhrases))
    => /\ cl_result \in { "True", "False" }
       /\ cl_result = "True" <=> (encashment /\ cl_row.deadline < today)

\* with the flag set, a collection row whose deadline is today has been
\* classified unpaid
C7_Witness ==
    /\ cl_result = "False"
    /\ encashment
    /\ cl_row.deadline = today
    /\ cl_row.state_text = <<"Beszedes alatt">>

----------------------------------------------------------------------------
(* C8: once a cycle has run to its end on day to_date, the next_query_date in *)
(* memory and the one in the registry file are both the least of              *)
(* to_date - 31 days and the issuance dates of the invoices of the unpaid     *)
(* list; with an empty unpaid list that is to_date - 31 days.                 *)
C8_WatermarkValue ==
    cycle_done
    => LET least == Min({ to_date - QUERY_DAYS }
                        \cup { unpaid_invoices[i].issuance_date :
                                 i \in 1..Len(unpaid_invoices) })
       IN /\ registry = least
          /\ registry_file = least
          /\ (unpaid_invoices = <<>> => registry = to_date - QUERY_DAYS)

\* an unpaid invoice issued more than 31 days before the cycle ran has pulled
\* the watermark down to its issuance date
C8_Witness ==
    /\ cycle_done
    /\ \E i \in 1..Len(unpaid_invoices) :
          /\ unpaid_invoices[i].issuance_date < to_date - QUERY_DAYS
          /\ registry_file = unpaid_invoices[i].issuance_date

----------------------------------------------------------------------------
(* C9: no invoice of the unpaid list was issued before the next_query_date of *)
(* the registry file, nor before the date from which a controller created     *)
(* anew over the same files would search.                                     *)
C9_WatermarkSafety ==
    \A i \in 1..Len(unpaid_invoices) :
        /\ registry_file # NoFile
        /\ registry_file <= unpaid_invoices[i].issuance_date
        /\ initialize_registry_and_unpaid_invoices(registry_file, ledger_file).registry
             <= unpaid_invoices[i].issuance_date

\* an unpaid invoice older than 31 days, with both files written, so that a new
\* controller starts from the date in the registry file
C9_Witness ==
    /\ cycle_done
    /\ ledger_file.exists
    /\ \E i \in 1..Len(unpaid_invoices) :
          /\ unpaid_invoices[i].issuance_date < to_date - QUERY_DAYS
          /\ initialize_registry_and_unpaid_invoices(registry_file,
                                                     ledger_file).registry
               = unpaid_invoices[i].issuance_date

----------------------------------------------------------------------------
(* C10: a row whose status text holds none of the known phrases is added to   *)
(* neither list, and the watermark the cycle writes is not later than the     *)
(* issuance date of the row, so that the next search shows the row again.     *)
\* going from controller c to controller after, a cycle that met rows has
\* neither added an invoice with the key of rows[i] to a list nor removed one
\* (stated for rows that show that key in unknown rows only)
UnknownRowAddsNothing(c, after, rows, i) ==
    (\A j \in 1..Len(rows) : Key(rows[j]) = Key(rows[i]) => IsUnknownRow(rows[j]))
    => /\ Count(after.paid, Key(rows[i])) = Count(c.paid, Key(rows[i]))
       /\ Count(after.unpaid, Key(rows[i])) = Count(c.unpaid, Key(rows[i]))

C10_UnknownRowRetried ==
    \A rows \in Snapshots :
        LET after == After(rows)
        IN \A i \in 1..Len(rows) :
              IsUnknownRow(rows[i])
              => /\ UnknownRowAddsNothing(Cur, after, rows, i)
                 /\ after.registry_file <= rows[i].issuance_date

(* C10 as amended: such a row is added to neither list, and the watermark the *)
(* cycle writes is not later than the issuance date of the row exactly when   *)
(* the row was issued no more than 31 days before the day of the cycle or no  *)
(* earlier than some invoice of the unpaid list.                              *)
C10_UnknownRowRetriedIfRecent ==
    \A rows \in Snapshots :
        LET after == After(rows)
        IN \A i \in 1..Len(rows) :
              IsUnknownRow(rows[i])
              => /\ UnknownRowAddsNothing(Cur, after, rows, i)
                 /\ (after.registry_file <= rows[i].issuance_date)
                    <=> \/ rows[i].issuance_date >= today - QUERY_DAYS
                        \/ \E n \in 1..Len(after.unpaid) :
                              after.unpaid[n].issuance_date <= rows[i].issuance_date

\* a controller that has run a cycle is about to meet a row it cannot classify,
\* issued within the last 31 days, next to a row that it adds to the unpaid
\* list: the key of the first stays out of both lists and the watermark is not
\* later than its issuance date
C10_Witness ==
    /\ cycle_done
    /\ \E rows \in Snapshots :
          /\ Len(rows) = 2
          /\ IsUnknownRow(rows[1])
          /\ IsUnpaidRow(rows[2])
          /\ rows[1].issuance_date >= today - QUERY_DAYS
          /\ Key(rows[1]) \notin KeysOf(After(rows).paid)
          /\ Key(rows[1]) \notin KeysOf(After(rows).unpaid)
          /\ Len(After(rows).unpaid) > Len(Cur.unpaid)
          /\ After(rows).registry_file <= rows[1].issuance_date

----------------------------------------------------------------------------
(* C11: a call of get_unpaid_invoices or get_paid_invoices starts a cycle     *)
(* exactly when no cycle has yet run to its end or the last one that did      *)
(* ended more than MIN_TIME_BETWEEN_UPDATES ago; a cycle that stopped at a    *)
(* failed login or raised does not count.  (Stated for the calls made while   *)
(* no cycle is running.)                                                      *)
C11_ThrottledRefresh ==
    [][ \A p \in Callers :
          (pc[p] = "idle" /\ pc'[p] # "idle"
             /\ \A q \in Callers : pc[q] # "refreshing")
          => (pc'[p] = "refreshing"
              <=> (last_success = None
                   \/ clock - last_success > MIN_TIME_BETWEEN_UPDATES)) ]_vars

----------------------------------------------------------------------------
(* C12: at no time are two cycles of one controller between their start and   *)
(* their end, however the calls interleave and however long a request hangs.  *)
C12_SerializedRefresh ==
    Cardinality({ p \in Callers : pc[p] = "refreshing" }) <= 1

----------------------------------------------------------------------------
(* C13: a call of update_invoices whose post_login answers false ends with    *)
(* the registry file and the ledger file as they were, neither created nor    *)
(* written, and with no window searched.                                      *)
C13_LoginFailureKeepsFiles ==
    [][ LoginFailed
        => /\ registry_file' = registry_file
           /\ ledger_file' = ledger_file
           /\ to_date' = to_date
           /\ cycle_done' = cycle_done ]_vars

\* a new controller over files that earlier cycles wrote has loaded them in a
\* call whose login failed
C13_Witness ==
    /\ ~cycle_done
    /\ registry # None
    /\ registry_file # NoFile
    /\ registry = registry_file
    /\ ledger_file.exists

----------------------------------------------------------------------------
(* C14: a call of update_invoices whose post_login answers false leaves the   *)
(* unpaid list, the paid list and the registry in memory as they were before  *)
(* the call, also on a controller that has not loaded its files.              *)
C14_LoginFailureKeepsCaches ==
    [][ LoginFailed
        => /\ unpaid_invoices' = unpaid_invoices
           /\ paid_invoices' = paid_invoices
           /\ registry' = registry ]_vars

(* C14 as amended: such a call leaves the unpaid list as it was; on a         *)
(* controller that has loaded its files it leaves the paid list and the       *)
(* registry as they were, and on one that has not it sets them to what        *)
(* _initialize_registry_and_unpaid_invoices reads from the files.             *)
C14_LoginFailureLoadsOnly ==
    [][ LoginFailed
        => /\ unpaid_invoices' = unpaid_invoices
           /\ registry # None
                => (paid_invoices' = paid_invoices /\ registry' = registry)
           /\ registry = None
                => LET init == initialize_registry_and_unpaid_invoices(
                                   registry_file, ledger_file)
                   IN /\ registry' = init.registry
                      /\ paid_invoices' = init.paid ]_vars

\* a new controller has loaded a ledger with entries in a call whose login
\* failed
C14_Witness ==
    /\ ~cycle_done
    /\ registry # None
    /\ Len(paid_invoices) > 0
    /\ Len(paid_invoices) = Len(ledger_file.entries)

----------------------------------------------------------------------------
(* Vocabulary of the properties about failing cycles *)

\* a step of SpecFaults that is a cycle ended by an exception
FaultStep == faults' = faults + 1

\* the same, the exception raised by one of the two writes
WriteFaultStep == FaultStep /\ fault' \in { "ledger", "registry" }

----------------------------------------------------------------------------
(* C15: a cycle writes both files or neither: a cycle that an exception ends  *)
(* has not appended to the ledger file and has not overwritten the registry   *)
(* file, so that no cycle leaves new entries in the ledger file next to the   *)
(* watermark of before the cycle.                                             *)
C15_AllOrNothing ==
    [][ FaultStep
        => /\ ledger_file' = ledger_file
           /\ registry_file' = registry_file ]_vars

----------------------------------------------------------------------------
(* C16: when the append to the ledger file or the overwrite of the registry   *)
(* file raises, the registry, the paid list and the unpaid list in memory     *)
(* keep the values they had before the cycle.                                 *)
C16_NoCacheAdvance ==
    [][ WriteFaultStep
        => /\ registry' = registry
           /\ paid_invoices' = paid_invoices
           /\ unpaid_invoices' = unpaid_invoices ]_vars

(* C16 as amended: when one of the two writes raises, the three keep the      *)
(* values they had once the cycle had loaded the files (lines 449-450): the   *)
(* values of before the cycle on a controller that had loaded them earlier,   *)
(* what the files held on one that had not; nothing the merge computed        *)
(* reaches them.                                                              *)
C16_NoCacheAdvanceOnceLoaded ==
    [][ WriteFaultStep
        => /\ registry' = Cur.registry
           /\ paid_invoices' = Cur.paid
           /\ unpaid_invoices' = unpaid_invoices
           /\ registry # None
                => (registry' = registry /\ paid_invoices' = paid_invoices) ]_vars

\* the overwrite of the registry file has raised after new paid invoices were
\* appended to the ledger file: the file holds entries the paid list lacks
C16_Witness ==
    /\ fault = "registry"
    /\ registry # None
    /\ ledger_file.exists
    /\ \E n \in 1..Len(ledger_file.entries) :
          Key(ledger_file.entries[n]) \notin KeysOf(paid_invoices)

----------------------------------------------------------------------------
(* C18: a cycle in which the download page or an attachment of some row       *)
(* cannot be fetched or written still runs to its end: the rows are merged,   *)
(* the registry file is overwritten and the caches are replaced.              *)
C18_DownloadFailureDoesNotBlock ==
    [][ (FaultStep /\ fault' = "download")
        => /\ cycle_done'
           /\ to_date' = today
           /\ registry_file' # NoFile
           /\ registry' = registry_file' ]_vars

----------------------------------------------------------------------------
(* Vocabulary of the properties about the steps of Spec *)

IsPrefix(a, b) == Len(a) <= Len(b) /\ SubSeq(b, 1, Len(a)) = a

IsIn(list, inv) == \E i \in 1..Len(list) : list[i] = inv

\* a step of Spec in which update_invoices ran to its end: LoginFailed and Tick
\* leave cycle_done alone (a failed login on a controller that has run a cycle
\* changes nothing), Restart unsets it
RanToEnd == cycle_done' /\ today' = today

----------------------------------------------------------------------------
(* C17: what the ledger file held is always the beginning of what it holds    *)
(* later, over cycles and new controllers alike; a cycle appends the          *)
(* dictionaries of the invoices it has newly added to the paid list and       *)
(* nothing else, nothing at all when it added none; and every cycle that runs *)
(* to its end overwrites the registry file with its watermark.                *)
C17_AppendOnlyLedger ==
    [][ /\ IsPrefix(ledger_file.entries, ledger_file'.entries)
        /\ ledger_file.exists => ledger_file'.exists
        /\ RanToEnd
             => LET new == SubSeq(paid_invoices', Len(Cur.paid) + 1,
                                  Len(paid_invoices'))
                IN /\ IsPrefix(Cur.paid, paid_invoices')
                   /\ ledger_file'.entries
                        = ledger_file.entries
                            \o [ i \in 1..Len(new) |-> to_dictionary(new[i]) ]
                   /\ new = <<>> => ledger_file' = ledger_file
                   /\ registry_file'
                        = next_query_date(today, unpaid_invoices') ]_vars

\* the first entry of the ledger file was written under an earlier controller
\* (the paid list holds it as loaded from the file) and this controller has
\* appended the last one
C17_Witness ==
    /\ cycle_done
    /\ Len(ledger_file.entries) >= 2
    /\ Len(paid_invoices) = Len(ledger_file.entries)
    /\ paid_invoices[1] = from_dictionary(ledger_file.entries[1])
    /\ paid_invoices[1] # from_dictionary(to_dictionary(paid_invoices[1]))
    /\ ledger_file.entries[Len(paid_invoices)]
         = to_dictionary(paid_invoices[Len(paid_invoices)])

----------------------------------------------------------------------------
----------------------------------------------------------------------------
(* C20: once the login has succeeded and the token is read, the call of       *)
(* post_search_invoice is accepted and posts the window that starts at the    *)
(* next_query_date of the registry and ends today.                            *)
C20_SearchWindowSubmitted ==
    search_call.outcome \notin { "pending", "token" }
      => /\ search_call.outcome = "posted"
         /\ search_call.datumtol = registry
         /\ search_call.datumig = today

----------------------------------------------------------------------------
(* C27: two controllers made for different usernames name their ledger files  *)
(* differently and their registry files differently.                          *)
C27_FileIsolation ==
    \A j \in DOMAIN filenames : \A k \in DOMAIN filenames :
        ( /\ usernames[j] # usernames[k]
          /\ filenames[j] # NoNames
          /\ filenames[k] # NoNames )
        => /\ filenames[j].paid # filenames[k].paid
           /\ filenames[j].registry # filenames[k].registry

----------------------------------------------------------------------------
(* C28: when the first call of a controller finds the registry file or the    *)
(* ledger file missing, the load gives next_query_date MIN_DATE and an empty  *)
(* paid list: a call whose login fails leaves exactly these, and a call that  *)
(* runs to its end holds in its paid list only what it has itself appended to *)
(* the ledger file.                                                           *)
C28_MissingStorageIsFirstRun ==
    [][ ( /\ registry = None
          /\ registry' # None
          /\ (registry_file = NoFile \/ ~ledger_file.exists) )
        => /\ Cur.registry = MIN_DATE
           /\ Cur.paid = <<>>
           /\ ~cycle_done' => /\ registry' = MIN_DATE
                              /\ paid_invoices' = <<>>
           /\ cycle_done' => ledger_file'.entries
                               = ledger_file.entries
                                   \o [ i \in 1..Len(paid_invoices') |->
                                          to_dictionary(paid_invoices'[i]) ] ]_vars

\* a controller that found a registry file and no ledger file, loaded by a call
\* whose login failed
C28_Witness ==
    /\ registry_file # NoFile
    /\ registry_file # MIN_DATE
    /\ ~ledger_file.exists
    /\ registry = MIN_DATE
    /\ paid_invoices = <<>>
    /\ ~cycle_done

----------------------------------------------------------------------------
(* C29: a load of a ledger file that holds malformed entries among the others *)
(* does not fail: the paid list is made of the entries from_dictionary        *)
(* accepts, each turned into its invoice, in the order of the file, and of    *)
(* nothing else.                                                              *)
C29_CorruptEntriesSkipped ==
    [][ (registry = None /\ registry' # None)
        => LET good == SelectSeq(ledger_file.entries, Loadable)
           IN /\ registry' = registry_file
              /\ Len(paid_invoices') = Len(good)
              /\ \A i \in 1..Len(good) :
                    paid_invoices'[i] = from_dictionary(good[i])
              /\ \A n \in 1..Len(paid_invoices') :
                    \E i \in 1..Len(ledger_file.entries) :
                       /\ ledger_file.entries[i] \in WellFormedEntries
                       /\ paid_invoices'[n] = from_dictionary(ledger_file.entries[i])
              /\ \A i \in 1..Len(ledger_file.entries) :
                    ledger_file.entries[i] \in WellFormedEntries
                    => \E n \in 1..Len(paid_invoices') :
                          paid_invoices'[n] = from_dictionary(ledger_file.entries[i]) ]_vars

\* loaded: a file whose first entry is malformed and which holds a well-formed
\* one after it
C29_Witness ==
    /\ registry # None
    /\ Len(ledger_file.entries) >= 2
    /\ ledger_file.entries[1] \in MalformedEntries
    /\ Len(paid_invoices) >= 1
    /\ Len(paid_invoices) < Len(ledger_file.entries)

----------------------------------------------------------------------------
(* C30: no platform calls get_issuers before the get_issuers awaited by       *)
(* async_setup_entry has returned; and a platform that calls it within        *)
(* MIN_TIME_BETWEEN_ISSUER_UPDATES of that first refresh is throttled and     *)
(* receives a list, the one that the first refresh left in the controller,    *)
(* never nothing.                                                             *)
C30_SetupOrdering ==
    /\ setup.stage \in { "none", "refreshing", "failed" }
         => \A p \in Platforms : received[p].got = "nothing"
    /\ \A p \in Platforms :
          ( /\ received[p].got # "nothing"
            /\ received[p].time - setup.stamp <= MIN_TIME_BETWEEN_ISSUER_UPDATES )
          => /\ received[p].got = "list"
             /\ received[p].value = setup.left

\* both platforms have been given the two issuers of the first refresh, at
\* different hours of its day
C30_Witness ==
    /\ setup.left = << "X", "Y" >>
    /\ \A p \in Platforms : received[p].value = << "X", "Y" >>
    /\ received["sensor"].time < received["calendar"].time
    /\ received["calendar"].time - setup.stamp <= MIN_TIME_BETWEEN_ISSUER_UPDATES

----------------------------------------------------------------------------
(* Vocabulary of the properties about the requests of a refresh *)

\* the current refresh, or the last one, has sent a request of this kind
Sent(kind) == \E i \in 1..Len(requests) : requests[i] = kind

\* how many requests of this kind a log holds
Times(kind, log) == Cardinality({ i \in 1..Len(log) : log[i] = kind })

\* the answers to the login request that are no JSON object with a 'success' flag
LoginErrors == { "transport error", "not json", "json array", "no success key" }

\* the requests of the pages of a logged-in user
PageRequests ==
    { "main", "search_page", "search", "invoice_page", "history", "download_page",
      "download", "list", "new_providers", "registered_providers" }

----------------------------------------------------------------------------
(* C21: when the login request fails in the transport, or its answer is not a *)
(* JSON object with a 'success' flag, post_login returns false and raises     *)
(* nothing.                                                                   *)
C21_LoginErrorsReportedAsFailure ==
    login.response \in LoginErrors => login.result = "False"

----------------------------------------------------------------------------
(* C22: a refresh that has ended, by running to its end, by returning after a *)
(* failed login or by an exception, holds no open session: the session is     *)
(* open only while a refresh runs.                                            *)
C22_SessionReleased ==
    session_open => ended = "running"

\* a cycle has gone through a row and the overwrite of the registry file has
\* raised; the session is closed
C22_Witness ==
    /\ work = "invoices"
    /\ ended = "raised"
    /\ fault = "registry"
    /\ row_no > 0
    /\ ~session_open

----------------------------------------------------------------------------
(* C23: a refresh first requests the root page, then posts the login; every   *)
(* other request is sent after post_login has returned true, and once         *)
(* post_login has returned false or raised the login is the last request of   *)
(* the session.                                                               *)
C23_LoginPrecedesPages ==
    /\ \A i \in 1..Len(requests) :
          /\ requests[i] = "root" <=> i = 1
          /\ requests[i] = "login" <=> i = 2
          /\ requests[i] \in PageRequests <=> i > 2
          /\ i > 2 => login.result = "True"
    /\ login.result \in { "False", "raised" }
         => /\ Len(requests) = 2
            /\ ended \in { "returned", "raised" }

\* a cycle has run to its end, having fetched a history page, a download page,
\* an attachment and the list page after its login
C23_Witness ==
    /\ ended = "completed"
    /\ login.result = "True"
    /\ Sent("history") /\ Sent("download_page") /\ Sent("download") /\ Sent("list")

----------------------------------------------------------------------------
(* C24: a cycle whose search page holds no vfw_token ends before a search is  *)
(* posted and before a row is handled, and leaves the two files and the paid  *)
(* and unpaid lists in memory as they were before the cycle.                  *)
C24_MissingTokenLeavesAllUnchanged ==
    token = "missing"
    => /\ ~Sent("search")
       /\ row_no = 0
       /\ ledger_file = before.ledger_file
       /\ registry_file = before.registry_file
       /\ paid_invoices = before.paid
       /\ unpaid_invoices = before.unpaid

(* C24 as amended: such a cycle ends with the exception of line 466, before a *)
(* search is posted and before a row is handled; it leaves the two files and  *)
(* the unpaid list as they were, and the paid list and the registry as they   *)
(* were once the cycle had loaded the files (lines 449-450).                  *)
C24_MissingTokenStopsAfterLoad ==
    token = "missing"
    => /\ ~Sent("search")
       /\ row_no = 0
       /\ search_result = <<>>
       /\ where \in { "token" }
       /\ ended \in { "running", "raised" }
       /\ ledger_file = before.ledger_file
       /\ registry_file = before.registry_file
       /\ paid_invoices = Loaded(before).paid
       /\ registry = Loaded(before).registry
       /\ unpaid_invoices = before.unpaid
       /\ before.registry # None
            => (paid_invoices = before.paid /\ registry = before.registry)

\* the cycle of a new controller has read a ledger file with entries and has
\* ended at the missing token
C24_Witness ==
    /\ token = "missing"
    /\ ended = "raised"
    /\ before.registry = None
    /\ Len(paid_invoices) > 0
    /\ Len(before.ledger_file.entries) > 0

----------------------------------------------------------------------------
(* C25: no attachment path is written twice, in one cycle or in several; a    *)
(* path is written only when no file of that path exists, every download      *)
(* request is followed by the write of its file, and no file is removed.      *)
C25_DownloadOnce ==
    [][ /\ IsPrefix(attachments, attachments')
        /\ files \subseteq files'
        /\ \A i \in (Len(attachments) + 1)..Len(attachments') :
              /\ attachments'[i] \notin files
              /\ \A j \in 1..(i - 1) : attachments'[j] # attachments'[i]
        /\ row_no' = row_no + 1
             => Times("download", requests') - Times("download", requests)
                  = Len(attachments') - Len(attachments) ]_vars

\* two rows of one invoice have been handled in a directory that held the pdf
\* of that invoice: the xml has been written once, the pdf never
C25_Witness ==
    /\ ended = "completed"
    /\ row_no = 2
    /\ index = 2
    /\ Key(search_result[1]) = Key(search_result[2])
    /\ ForeignFile \in files
    /\ Len(attachments) = 1
    /\ attachments[1].directory = ForeignFile.directory
    /\ attachments[1].filename[4] = "xml"

----------------------------------------------------------------------------
(* C26: a controller whose download directory is None or "" makes no          *)
(* directory, requests no download page, sends no download request and        *)
(* writes no attachment.                                                      *)
C26_NoDirectoryNoDownloads ==
    download_dir \in { NoDirectory, "" }
    => /\ directories = {}
       /\ files = {}
       /\ attachments = <<>>
       /\ ~Sent("download_page")
       /\ ~Sent("download")

\* a cycle without a download directory has handled a paid and an unpaid row
\* and run to its end
C26_Witness ==
    /\ download_dir = ""
    /\ ended = "completed"
    /\ index = 2
    /\ Sent("history")
    /\ Len(unpaid_invoices) > 0

----------------------------------------------------------------------------
(* C31: what a new controller loads with from_dictionary from an entry that a *)
(* cycle has appended to the ledger file is the paid invoice the cycle wrote, *)
(* field by field.                                                            *)
C31_LedgerRoundTrip ==
    \A n \in 1..Len(ledger_file.entries) :
        \A p \in { ledger_file.entries[n] } :
            from_dictionary(to_dictionary(p)) = p

----------------------------------------------------------------------------
(* C32: once a cycle has run to its end, no key (provider, invoice_no) is in  *)
(* the paid list and in the unpaid list at once.                              *)
C32_PaidUnpaidDisjoint ==
    cycle_done => KeysOf(paid_invoices) \cap KeysOf(unpaid_invoices) = {}

----------------------------------------------------------------------------
(* Vocabulary of the properties about the row loop *)

\* the loop is about to handle a row for which it calls get_invoice_page(index):
\* a paid row (line 494), or any classified row with a download directory
\* (line 545)
SelectsNextRow ==
    /\ work = "invoices"
    /\ ended = "running"
    /\ where = "rows"
    /\ row_no < Len(search_result)
    /\ LET verdict == Verdict(search_result[row_no + 1], encashment, today)
       IN \/ verdict = "True"
          \/ /\ verdict = "False"
             /\ download_configured(download_dir)
             /\ download_dir # NoDirectory

----------------------------------------------------------------------------
(* C33: the index the loop passes to get_invoice_page for a row is the        *)
(* zero-based position of that row in the search result, also after rows that *)
(* the classifier did not know.                                               *)
C33_RowIndexAligned ==
    SelectsNextRow => index = row_no

----------------------------------------------------------------------------
(* C34: whatever cycles have failed, the ledger file holds at most one entry  *)
(* for each key; and once a cycle of the controller has run to its end, the   *)
(* keys of the ledger file are the keys of the paid list.                     *)
C34_LedgerMatchesPaidList ==
    [][ /\ NoDuplicateKeys(ledger_file'.entries)
        /\ (RanToEnd /\ ~FaultStep)
             => KeysOf(ledger_file'.entries) = KeysOf(paid_invoices') ]_vars

----------------------------------------------------------------------------
(* C35: when a controller that has not loaded its files finds the registry    *)
(* file, the window of its first search starts at the next_query_date of the  *)
(* file, whether the ledger file exists or not.                               *)
C35_PersistedWatermarkHonoured ==
    (registry = None /\ registry_file # NoFile)
    => \A rows \in Snapshots :
          /\ Cur.registry = registry_file
          /\ \A i \in 1..Len(rows) : rows[i].issuance_date >= registry_file

----------------------------------------------------------------------------
(* Vocabulary of the properties about what the getters can return.  A call of *)
(* get_unpaid_invoices or get_paid_invoices that the throttle answers returns *)
(* the attribute as it is at that moment, which can be any moment between two *)
(* steps of a running cycle.                                                  *)

\* the registry and the two lists of a controller value
Caches(c) == << c.registry, c.paid, c.unpaid >>

\* what the cycle that runs, or ran last, merges from its search result
Merged == MergeAndPersist(Loaded(before), search_result, encashment, today)

----------------------------------------------------------------------------
----------------------------------------------------------------------------
(* C37: a step of update_registered_issuers changes the cached list of        *)
(* issuers only when the refresh runs to its end, and then to the list it has *)
(* scraped; a refresh whose login fails or that raises leaves the list as it  *)
(* was; no step changes the registry, the two invoice lists or the two files. *)
C37_IssuersReplacedByCompleteScrape ==
    [][ work' = "issuers"
        => /\ issuers' # issuers
                => /\ ended = "running"
                   /\ ended' = "completed"
                   /\ where = "registered_providers"
           /\ ended' = "completed" => issuers' \in IssuerLists
           /\ ended' \in { "returned", "raised" } => issuers' = issuers
           /\ UNCHANGED <<registry, paid_invoices, unpaid_invoices, registry_file,
                          ledger_file>> ]_vars

\* a refresh of the issuers has raised at its last request on a controller
\* that holds issuers and paid invoices
C37_Witness ==
    /\ work = "issuers"
    /\ ended = "raised"
    /\ where = "registered_providers"
    /\ Len(issuers) = 2
    /\ Len(paid_invoices) > 0

----------------------------------------------------------------------------
(* Vocabulary of the properties about the wrapper of sensor.py.               *)

\* the thread is between the login and the assignment of the list
Scraping(t) == threads[t].at \in { "login", "main", "rows" }

\* the call of the thread acquired the lock less than SCAN_INTERVAL after the
\* update before it was stamped
Throttled(t) ==
    /\ threads[t].acquired # None
    /\ threads[t].since # None
    /\ threads[t].acquired - threads[t].since < SCAN_INTERVAL

----------------------------------------------------------------------------
(* C38: after every step at most one thread is between the login and the      *)
(* assignment of the list of updateUnpaidInvoices; and a thread whose call    *)
(* acquired the lock less than SCAN_INTERVAL after the update before it       *)
(* started has sent no request, is not in that section, and no step it takes  *)
(* changes self._unpaidInvoices.                                              *)
C38_WrapperSerialised ==
    [][ /\ \A t, u \in Threads : (Scraping(t)' /\ Scraping(u)') => t = u
        /\ \A t \in Threads :
              Throttled(t)'
              => /\ threads'[t].sent = 0
                 /\ ~Scraping(t)'
                 /\ threads'[t].ended \in { "none", "skipped" }
                 /\ threads'[t] # threads[t]
                      => wrapper'.unpaidInvoices = wrapper.unpaidInvoices ]_vars

\* a thread has acquired the lock two hours after an update that listed an
\* invoice, and skips, while the other thread waits for the lock
C38_Witness ==
    \E t, u \in Threads :
        /\ t # u
        /\ threads[t].at = "skip"
        /\ Throttled(t)
        /\ threads[t].acquired - threads[t].since = SCAN_INTERVAL - 1
        /\ wrapper.lock = t
        /\ wrapper.unpaidInvoices # NoneList
        /\ Len(wrapper.unpaidInvoices) > 0
        /\ threads[u].at = "waiting"

====
